---- MODULE Spec2Model ----
(***************************************************************************)
(* A model of the simulation-stream engine of simulation_streams:          *)
(*   - the expression evaluator          (src/evaluator.py, class Evaluator) *)
(*   - the operator runner run_formula   (src/simulation_utils.py)          *)
(*   - the step driver simulation_stream_generator                          *)
(*   - the ECS compiler generate_operators                                  *)
(*                                                                         *)
(* Representation.                                                          *)
(*   Text.  A Python str is a sequence of symbols.  A symbol is a lexeme:   *)
(*   a blank " ", the assignment sign "=", a bracket "['" or "']", a        *)
(*   keyword, a numeral, a quoted string literal, or a fragment of an       *)
(*   identifier.  "=" and "_" are always symbols of their own (world_time   *)
(*   is <<"world","_","time">>), and an identifier that extends another one *)
(*   is written with the shorter one's symbols first (x is <<"x">>, xy is   *)
(*   <<"x","y">>), so that str.split('='),                                  *)
(*   str.strip(), str.startswith(), the `in` substring test and f-string    *)
(*   concatenation are computed on the sequence as Python computes them on  *)
(*   the characters.                                                        *)
(*   ast.parse (Python's own parser) is the table Parse over the expression *)
(*   texts that occur in the model.                                         *)
(*   Values are tagged records [t, v]; t is the Python type name.  A dict   *)
(*   is a reference: DictV(a) points to heap[a], DictV(0) to the live state *)
(*   dict of the driver.  A dict's contents are a function from keys        *)
(*   (Texts) to values.                                                     *)
(*   The runner obtains its evaluator from evaluator(task_name).  The model *)
(*   takes that name to be the factory of src/evaluator.py:27, which        *)
(*   returns an Evaluator and only fills its function registry, whatever    *)
(*   task name it is handed; the registry's names are kept in Functions.    *)
(***************************************************************************)
EXTENDS Integers, Sequences, FiniteSets, TLC

(***************************************************************************)
(* Text operations (Python str methods used by the code)                   *)
(***************************************************************************)
Whitespace == {" ", "\n"}

\* s.startswith(p)
StartsWith(s, p) == Len(p) <= Len(s) /\ SubSeq(s, 1, Len(p)) = p

\* sub in s
ContainsText(s, sub) ==
  \E i \in 1..(Len(s) - Len(sub) + 1) : SubSeq(s, i, i + Len(sub) - 1) = sub

RECURSIVE LStrip(_)
LStrip(s) == IF s # <<>> /\ Head(s) \in Whitespace THEN LStrip(Tail(s)) ELSE s

RECURSIVE RStrip(_)
RStrip(s) ==
  IF s # <<>> /\ s[Len(s)] \in Whitespace
    THEN RStrip(SubSeq(s, 1, Len(s) - 1))
    ELSE s

\* s.strip()
Strip(s) == RStrip(LStrip(s))

\* index of the first occurrence of symbol sym in s at or after i, 0 if none
RECURSIVE Find(_, _, _)
Find(s, sym, i) ==
  IF i > Len(s) THEN 0 ELSE IF s[i] = sym THEN i ELSE Find(s, sym, i + 1)

\* '=' in s
HasEq(s) == Find(s, "=", 1) # 0

\* s.split('=')[0]
SplitHead(s) == IF HasEq(s) THEN SubSeq(s, 1, Find(s, "=", 1) - 1) ELSE s

\* s.split('=', 1)[1]   (defined when HasEq(s))
SplitRest(s) == SubSeq(s, Find(s, "=", 1) + 1, Len(s))

\* re.findall(r"\['(.*?)'\]", lhs): the texts between each "['" and the next "']"
RECURSIVE FindAllKeys(_, _)
FindAllKeys(s, i) ==
  LET o == Find(s, "['", i) IN
  IF o = 0 THEN <<>>
  ELSE LET c == Find(s, "']", o + 1) IN
       IF c = 0 THEN <<>>
       ELSE <<SubSeq(s, o + 1, c - 1)>> \o FindAllKeys(s, c + 1)

(***************************************************************************)
(* Values                                                                   *)
(***************************************************************************)
IntV(n)  == [t |-> "int", v |-> n]
BoolV(b) == [t |-> "bool", v |-> b]
StrV(s)  == [t |-> "str", v |-> s]
ListV(xs) == [t |-> "list", v |-> xs]
DictV(a) == [t |-> "dict", v |-> a]
NoneV    == [t |-> "NoneType", v |-> 0]
FuncV(f) == [t |-> "builtin_function_or_method", v |-> f]
\* getattr(self, name) of a method: the method bound to the value
MethodV(self, name) == [t |-> "builtin_function_or_method", v |-> name, self |-> self]
HandleV(h) == [t |-> "module", v |-> h]

\* dict[k] = v
Put(d, k, v) == [x \in (DOMAIN d) \cup {k} |-> IF x = k THEN v ELSE d[x]]

\* d.get(k, default)
Get(d, k, default) == IF k \in DOMAIN d THEN d[k] ELSE default

\* the truth value Python gives a value (`if value:`)
Truthy(val) ==
  CASE val.t = "bool" -> val.v
    [] val.t = "int" -> val.v # 0
    [] val.t = "str" -> val.v # <<>>
    [] val.t = "list" -> val.v # <<>>
    [] val.t = "NoneType" -> FALSE
    [] val.t = "dict" /\ "literal" \in DOMAIN val -> DOMAIN val.v # {}
    [] OTHER -> TRUE

\* the number a bool or int stands for in arithmetic
NumOf(val) == IF val.t = "bool" THEN (IF val.v THEN 1 ELSE 0) ELSE val.v

\* repr(value) for the elements of a list
RECURSIVE Repr(_)
RECURSIVE ReprElts(_, _)
ReprElts(xs, i) ==
  IF i > Len(xs) THEN <<>>
  ELSE (IF i > 1 THEN <<",", " ">> ELSE <<>>) \o Repr(xs[i]) \o ReprElts(xs, i + 1)

\* repr(value): strings in single quotes; a dict is not rendered by content
\* (the model keeps no insertion order)
Repr(val) ==
  CASE val.t = "int" -> <<ToString(val.v)>>
    [] val.t = "bool" -> IF val.v THEN <<"True">> ELSE <<"False">>
    [] val.t = "NoneType" -> <<"None">>
    [] val.t = "str" -> <<"'">> \o val.v \o <<"'">>
    [] val.t = "list" -> <<"[">> \o ReprElts(val.v, 1) \o <<"]">>
    [] val.t = "dict" -> <<"{", "...", "}">>
    [] OTHER -> <<"<", val.t, ">">>

\* str(value), as an f-string inserts it: a string without its quotes
Format(val) == IF val.t = "str" THEN val.v ELSE Repr(val)

(***************************************************************************)
(* Expressions: the syntax trees of ast.parse                              *)
(***************************************************************************)
Constant(val)          == [node |-> "Constant", value |-> val]
Name(id)               == [node |-> "Name", id |-> id]
BinOpAdd(l, r)         == [node |-> "BinOp", op |-> "Add", left |-> l, right |-> r]
IfExp(c, a, b)         == [node |-> "IfExp", test |-> c, body |-> a, orelse |-> b]
List(elts)             == [node |-> "List", elts |-> elts]
ListComp(e, target, it) == [node |-> "ListComp", elt |-> e, target |-> target, iter |-> it]
Call(func, args)       == [node |-> "Call", func |-> func, args |-> args]
Attribute(value, attr) == [node |-> "Attribute", value |-> value, attr |-> attr]
SyntaxErrorNode        == [node |-> "SyntaxError"]

\* ast.parse(expr, mode='eval') on the expression texts of the model; any other
\* text is not an expression
Parse(txt) ==
  CASE txt = <<"0">> -> Constant(IntV(0))
    [] txt = <<"1">> -> Constant(IntV(1))
    [] txt = <<"2">> -> Constant(IntV(2))
    [] txt = <<"True">> -> Constant(BoolV(TRUE))
    [] txt = <<"False">> -> Constant(BoolV(FALSE))
    [] txt = <<"None">> -> Constant(NoneV)
    [] txt = <<"'a'">> -> Constant(StrV(<<"a">>))
    [] txt = <<"'b'">> -> Constant(StrV(<<"b">>))
    [] txt = <<"nope">> -> Name(<<"nope">>)
    [] txt = <<"len">> -> Name(<<"len">>)
    [] txt = <<"world", "_", "time">> -> Name(<<"world", "_", "time">>)
    [] txt = <<"world", "_", "time", " ", "+", " ", "1">> ->
         BinOpAdd(Name(<<"world", "_", "time">>), Constant(IntV(1)))
    [] txt = <<"nope", " ", "+", " ", "1">> ->
         BinOpAdd(Name(<<"nope">>), Constant(IntV(1)))
    [] txt = <<"[", "agent", "_", "x", " ", "for", " ", "agent", "_", "x", " ", "in", " ",
               "[", "1", ",", " ", "2", "]", "]">> ->
         ListComp(Name(<<"agent", "_", "x">>), Name(<<"agent", "_", "x">>),
                  List(<<Constant(IntV(1)), Constant(IntV(2))>>))
    [] txt = <<"[", "world", "_", "time", " ", "for", " ", "world", "_", "time", " ",
               "in", " ", "[", "1", ",", " ", "2", "]", "]", " ", "+", " ", "1">> ->
         BinOpAdd(ListComp(Name(<<"world", "_", "time">>), Name(<<"world", "_", "time">>),
                           List(<<Constant(IntV(1)), Constant(IntV(2))>>)),
                  Constant(IntV(1)))
    [] txt = <<"world", "_", "flag">> -> Name(<<"world", "_", "flag">>)
    [] txt = <<"'C'", " ", "if", " ", "world", "_", "flag", " ", "else", " ", "'B'">> ->
         IfExp(Name(<<"world", "_", "flag">>), Constant(StrV(<<"C">>)),
               Constant(StrV(<<"B">>)))
    [] txt = <<"len", "(", "[", "1", ",", " ", "2", "]", ")">> ->
         Call(Name(<<"len">>), <<List(<<Constant(IntV(1)), Constant(IntV(2))>>)>>)
    [] txt = <<"all", "(", "[", "True", "]", ")">> ->
         Call(Name(<<"all">>), <<List(<<Constant(BoolV(TRUE))>>)>>)
    [] txt = <<"any", "(", "[", "True", "]", ")">> ->
         Call(Name(<<"any">>), <<List(<<Constant(BoolV(TRUE))>>)>>)
    [] txt = <<"len", "(", "1", ")">> -> Call(Name(<<"len">>), <<Constant(IntV(1))>>)
    [] txt = <<"nope", "(", "1", ")">> -> Call(Name(<<"nope">>), <<Constant(IntV(1))>>)
    [] txt = <<"world", "_", "time", "(", "1", ")">> ->
         Call(Name(<<"world", "_", "time">>), <<Constant(IntV(1))>>)
    [] txt = <<"'a'", ".", "upper", "(", ")">> ->
         Call(Attribute(Constant(StrV(<<"a">>)), <<"upper">>), <<>>)
    [] txt = <<"agent", "_", "x", ".", "upper", "(", ")">> ->
         Call(Attribute(Name(<<"agent", "_", "x">>), <<"upper">>), <<>>)
    [] txt = <<"agent", "_", "x", ".", "nope", "(", ")">> ->
         Call(Attribute(Name(<<"agent", "_", "x">>), <<"nope">>), <<>>)
    [] OTHER -> SyntaxErrorNode

(***************************************************************************)
(* Evaluator (src/evaluator.py).  An evaluation threads ev:                 *)
(*   names   - the contents of the dict bound to self.names                 *)
(*   state   - the contents of the dict the caller injected (s.names=state) *)
(*   aliased - whether self.names still is that very dict                   *)
(* A result is [ok, val, ev]; ok = FALSE is a raised exception.             *)
(***************************************************************************)
\* names of the function registry that the model's expressions can mention
Functions == {<<"len">>, <<"all">>, <<"any">>, <<"min">>, <<"max">>}

Returned(val, ev) == [ok |-> TRUE, val |-> val, ev |-> ev]
Raised(ev)        == [ok |-> FALSE, val |-> NoneV, ev |-> ev]

\* self.names[k] = v : a write to the dict self.names is bound to
SetName(ev, k, val) ==
  [ev EXCEPT !.names = Put(ev.names, k, val),
             !.state = IF ev.aliased THEN Put(ev.state, k, val) ELSE ev.state]

RECURSIVE visit(_, _)
RECURSIVE visit_elts(_, _, _, _)
RECURSIVE _eval_comprehension_loop(_, _, _, _, _)

visit_Constant(node, ev) == Returned(node.value, ev)

visit_Name(node, ev) ==
  IF node.id \in DOMAIN ev.names THEN Returned(ev.names[node.id], ev)
  ELSE IF node.id \in Functions THEN Returned(FuncV(node.id), ev)
  ELSE Raised(ev)

\* operator.add on the operand types of the model
\* visit_BinOp with the left operand as the result
visit_BinOp_left(node, ev) ==
  LET l == visit(node.left, ev) IN
  IF ~l.ok THEN l ELSE
  LET r == visit(node.right, l.ev) IN
  IF ~r.ok THEN r ELSE Returned(l.val, r.ev)

visit_BinOp(node, ev) ==
  LET l == visit(node.left, ev) IN
  IF ~l.ok THEN l ELSE
  LET r == visit(node.right, l.ev) IN
  IF ~r.ok THEN r ELSE
  IF l.val.t \in {"int", "bool"} /\ r.val.t \in {"int", "bool"}
    THEN Returned(IntV(NumOf(l.val) + NumOf(r.val)), r.ev)
  ELSE IF l.val.t = "str" /\ r.val.t = "str"
    THEN Returned(StrV(l.val.v \o r.val.v), r.ev)
  ELSE IF l.val.t = "list" /\ r.val.t = "list"
    THEN Returned(ListV(l.val.v \o r.val.v), r.ev)
  ELSE Raised(r.ev)

\* visit_IfExp with body and orelse exchanged
visit_IfExp_swapped(node, ev) ==
  LET condition == visit(node.test, ev) IN
  IF ~condition.ok THEN condition
  ELSE IF Truthy(condition.val) THEN visit(node.orelse, condition.ev)
  ELSE visit(node.body, condition.ev)

visit_IfExp(node, ev) ==
  LET condition == visit(node.test, ev) IN
  IF ~condition.ok THEN condition
  ELSE IF Truthy(condition.val) THEN visit(node.body, condition.ev)
  ELSE visit(node.orelse, condition.ev)

\* [self.visit(elem) for elem in node.elts], from element i on
visit_elts(elts, i, ev, acc) ==
  IF i > Len(elts) THEN Returned(ListV(acc), ev)
  ELSE LET e == visit(elts[i], ev) IN
       IF ~e.ok THEN e ELSE visit_elts(elts, i + 1, e.ev, Append(acc, e.val))

visit_List(node, ev) == visit_elts(node.elts, 1, ev, <<>>)

\* the loop of _eval_comprehension from item i on: _assign_target writes the
\* loop variable into self.names, then the element is evaluated
_eval_comprehension_loop(node, items, i, ev, result) ==
  IF i > Len(items) THEN Returned(ListV(result), ev)
  ELSE LET bound == SetName(ev, node.target.id, items[i])
           e == visit(node.elt, bound) IN
       IF ~e.ok THEN e
       ELSE _eval_comprehension_loop(node, items, i + 1, e.ev, Append(result, e.val))

_eval_comprehension(node, ev) ==
  LET iter_values == visit(node.iter, ev) IN
  IF ~iter_values.ok THEN iter_values
  ELSE IF iter_values.val.t # "list" THEN Raised(iter_values.ev)
  ELSE _eval_comprehension_loop(node, iter_values.val.v, 1, iter_values.ev, <<>>)

\* original_names = self.names.copy(); ...; finally: self.names = original_names
\* The copy is a new dict: after the comprehension self.names no longer is the
\* injected dict, which keeps what the loop wrote into it.
_evaluate_comprehension(node, ev) ==
  LET original_names == ev.names
      r == _eval_comprehension(node, ev) IN
  [r EXCEPT !.ev = [names |-> original_names, state |-> r.ev.state, aliased |-> FALSE]]

visit_ListComp(node, ev) == _evaluate_comprehension(node, ev)

\* str.upper() on the letters of the model's string values
UpperSymbol(c) == CASE c = "a" -> "A" [] c = "b" -> "B" [] OTHER -> c
Upper(text) == [i \in 1..Len(text) |-> UpperSymbol(text[i])]

\* hasattr(value, attr): the methods of str the model's expressions name
Attributes(value) == IF value.t = "str" THEN {<<"upper">>} ELSE {}

\* func(*args) for the functions the model's expressions call: len, all and
\* any of the registry on one argument (a list, or a value that is none and
\* raises TypeError), and the bound method str.upper
call(func, args, ev) ==
  IF "self" \in DOMAIN func
    THEN IF func.v = <<"upper">> /\ args = <<>>
           THEN Returned(StrV(Upper(func.self.v)), ev)
           ELSE Raised(ev)
  ELSE IF Len(args) # 1 \/ args[1].t # "list" THEN Raised(ev)
  ELSE IF func.v = <<"len">> THEN Returned(IntV(Len(args[1].v)), ev)
  ELSE IF func.v = <<"all">>
    THEN Returned(BoolV(\A i \in 1..Len(args[1].v) : Truthy(args[1].v[i])), ev)
  ELSE IF func.v = <<"any">>
    THEN Returned(BoolV(\E i \in 1..Len(args[1].v) : Truthy(args[1].v[i])), ev)
  ELSE Raised(ev)   \* min and max are called by no expression of the model

visit_Call(node, ev) ==
  LET func == visit(node.func, ev) IN
  IF ~func.ok THEN func
  ELSE IF func.val.t # "builtin_function_or_method" THEN Raised(func.ev)
  ELSE LET args == visit_elts(node.args, 1, func.ev, <<>>) IN
       IF ~args.ok THEN args ELSE call(func.val, args.val.v, args.ev)

visit_Attribute(node, ev) ==
  LET value == visit(node.value, ev) IN
  IF ~value.ok THEN value
  ELSE IF node.attr \in Attributes(value.val)
    THEN Returned(MethodV(value.val, node.attr), value.ev)
  ELSE Raised(value.ev)

visit(node, ev) ==
  CASE node.node = "Constant" -> visit_Constant(node, ev)
    [] node.node = "Name" -> visit_Name(node, ev)
    [] node.node = "BinOp" -> visit_BinOp(node, ev)
    [] node.node = "IfExp" -> visit_IfExp(node, ev)
    [] node.node = "List" -> visit_List(node, ev)
    [] node.node = "ListComp" -> visit_ListComp(node, ev)
    [] node.node = "Call" -> visit_Call(node, ev)
    [] node.node = "Attribute" -> visit_Attribute(node, ev)
    [] OTHER -> Raised(ev)

\* s = evaluator(task_name); s.names = names; s.eval(expr)
\* Result [ok, val, names]: names is the injected dict after the evaluation.
eval(expr, names) ==
  LET result(r) == [ok |-> r.ok, val |-> r.val, names |-> r.ev.state]
      run(tree) ==
        IF tree.node = "SyntaxError"
          THEN [ok |-> FALSE, val |-> NoneV, names |-> names]
          ELSE result(visit(tree, [names |-> names, state |-> names, aliased |-> TRUE]))
  IN run(Parse(expr))

(***************************************************************************)
(* Operators (formula_data) and the state are dicts: functions from keys    *)
(* (Texts) to values.  The keys the code names:                             *)
(***************************************************************************)
kId         == <<"id">>
kFormula    == <<"formula">>
kNext       == <<"next">>
kQuery      == <<"query">>
kUseLm      == <<"use", "_", "lm">>
kState      == <<"state">>
kSampleMode == <<"sample", "_", "mode">>

EmptyDict == << >>
Sampled   == <<" ", "#", " ", "sampled">>
Assign    == <<" ", "=", " ">>
Unknown   == StrV(<<"Unknown">>)

(***************************************************************************)
(* read_context and query_history (src/simulation_utils.py:27-91).  Here a  *)
(* symbol of a text is one character, so that Len is Python's len, where    *)
(* the length is compared with max_context_length (SpecContext); the        *)
(* contexts of the driver's runs stay far below its max_context_length.     *)
(***************************************************************************)
MaxContextLength == 1000000

\* a == b on the values of the model: numbers compare by value, True == 1
PyEq(a, b) ==
  IF a.t \in {"int", "bool"} /\ b.t \in {"int", "bool"}
    THEN NumOf(a) = NumOf(b)
    ELSE a = b

\* step_matches with any in the place of all
step_matches_some(step, kwargs) ==
  \E k \in DOMAIN kwargs :
    IF kwargs[k].t # "list"
      THEN PyEq(Get(step.state, k, NoneV), kwargs[k])
      ELSE \E n \in 1..Len(kwargs[k].v) :
             PyEq(Get(step.state, k, NoneV), kwargs[k].v[n])

\* lines 81-86: the step matches every item of kwargs
step_matches(step, kwargs) ==
  \A k \in DOMAIN kwargs :
    IF kwargs[k].t # "list"
      THEN PyEq(Get(step.state, k, NoneV), kwargs[k])
      ELSE \E n \in 1..Len(kwargs[k].v) :
             PyEq(Get(step.state, k, NoneV), kwargs[k].v[n])

\* lines 79-88: results, from step i on
RECURSIVE matching_output(_, _, _)
matching_output(history, kwargs, i) ==
  IF i > Len(history) THEN <<>>
  ELSE (IF step_matches(history[i], kwargs) THEN history[i].output ELSE <<>>)
         \o matching_output(history, kwargs, i + 1)

\* '\n'.join(results)
RECURSIVE join_lines(_)
join_lines(results) ==
  IF results = <<>> THEN <<>>
  ELSE IF Len(results) = 1 THEN results[1]
  ELSE results[1] \o <<"\n">> \o join_lines(Tail(results))

\* rstrip_newlines left out
rstrip_newlines_kept(context) == context

\* context.rstrip('\n')
RECURSIVE rstrip_newlines(_)
rstrip_newlines(context) ==
  IF context # <<>> /\ context[Len(context)] = "\n"
    THEN rstrip_newlines(SubSeq(context, 1, Len(context) - 1))
    ELSE context

\* query_history without the last step of the history
query_history_stale(history, kwargs) ==
  rstrip_newlines(join_lines(
    matching_output(SubSeq(history, 1, Len(history) - 1), kwargs, 1))) \o <<"\n">>

\* lines 69-91
query_history(history, kwargs) ==
  rstrip_newlines(join_lines(matching_output(history, kwargs, 1))) \o <<"\n">>

\* lines 59-62
TruncationNotice ==
  <<"[", "N", "o", "t", "e", ":", " ", "T", "h", "e", " ", "f",
     "o", "l", "l", "o", "w", "i", "n", "g", " ", "h", "i", "s",
     "t", "o", "r", "y", " ", "h", "a", "s", " ", "b", "e", "e",
     "n", " ", "t", "r", "u", "n", "c", "a", "t", "e", "d", " ",
     "d", "u", "e", " ", "t", "o", " ", "l", "e", "n", "g", "t",
     "h", " ", "c", "o", "n", "s", "t", "r", "a", "i", "n", "t",
     "s", " ", "a", "n", "d", " ", "c", "a", "n", ",", " ", "d",
     "u", "e", " ", "t", "o", " ", "t", "h", "i", "s", ",", " ",
     "s", "t", "a", "r", "t", " ", "m", "i", "d", "-", "t", "u",
     "r", "n", ".", "]", "\n", "\n">>

\* context[-n:] for n >= 0: -0 is 0, so the whole text
last_characters(context, n) ==
  IF n = 0 \/ n >= Len(context) THEN context
  ELSE SubSeq(context, Len(context) - n + 1, Len(context))

\* lines 53-66: the cut-off and the notice
tail_truncation(context, max_context_length) ==
  IF Len(context) > max_context_length
    THEN TruncationNotice \o last_characters(context, max_context_length)
    ELSE last_characters(context, max_context_length)

kMaxContextLength == <<"max", "_", "context", "_", "length">>

\* lines 44-49: a string value of the query names a state key, if there is one
expanded_query(query, current_state) ==
  [k \in DOMAIN query |->
     IF query[k].t = "str" THEN Get(current_state, query[k].v, query[k])
     ELSE query[k]]

\* a dict written in a configuration, held by its contents
QueryV(d) == [t |-> "dict", v |-> d, literal |-> TRUE]

\* lines 27-66; query is None or a dict
read_context(history, query, current_state) ==
  IF query = NoneV THEN <<>>
  ELSE tail_truncation(
         query_history(history, expanded_query(query.v, current_state)),
         Get(current_state, kMaxContextLength, IntV(MaxContextLength)).v)

(***************************************************************************)
(* run_formula (src/simulation_utils.py:94-289)                             *)
(***************************************************************************)
\* lines 107-125: the use_lm setting; a string is evaluated against the state.
\* (A callable setting is none of the model's configurations.)
\* resolve_use_lm with the truth value of whatever the setting is
resolve_use_lm_truthy(state, formula_data) ==
  LET decide(setting, st) ==
        [use_default |-> ~Truthy(setting), use_lm_active |-> Truthy(setting), state |-> st]
      evaluated(e) == decide(IF e.ok THEN e.val ELSE BoolV(FALSE), e.names)
      use_lm_setting == Get(formula_data, kUseLm, BoolV(FALSE))
  IN IF use_lm_setting.t = "str"
       THEN evaluated(eval(use_lm_setting.v, state))
       ELSE decide(use_lm_setting, state)

\* lines 107-125
resolve_use_lm(state, formula_data) ==
  LET \* use_lm_setting(state) for the callables the model's use_lm
      \* expressions name: len of the state dict, all and any of its keys,
      \* which are non-empty strings
      applied(setting, st) ==
        CASE setting.v = <<"len">> -> IntV(Cardinality(DOMAIN st))
          [] setting.v \in {<<"all">>, <<"any">>} -> BoolV(TRUE)
      decide(setting, st) ==
        IF setting.t = "bool"
          THEN [use_default |-> ~setting.v, use_lm_active |-> setting.v, state |-> st]
        ELSE IF setting.t = "builtin_function_or_method"
          THEN [use_default |-> ~Truthy(applied(setting, st)),
                use_lm_active |-> Truthy(applied(setting, st)), state |-> st]
        ELSE [use_default |-> TRUE, use_lm_active |-> FALSE, state |-> st]
      evaluated(e) == decide(IF e.ok THEN e.val ELSE BoolV(FALSE), e.names)
      use_lm_setting == Get(formula_data, kUseLm, BoolV(FALSE))
  IN IF use_lm_setting.t = "str"
       THEN evaluated(eval(use_lm_setting.v, state))
       ELSE decide(use_lm_setting, state)

\* lines 141-146: isinstance(default_value, (int, float)) is tried first, and a
\* Python bool is an instance of int
expected_type_of(default_value) ==
  IF default_value.t \in {"int", "float", "bool"} THEN "number"
  ELSE IF default_value.t = "bool" THEN "bool"
  ELSE default_value.t

\* lines 135-154
expected_type_for(state, formula) ==
  LET typed(e) == [type |-> IF e.ok THEN expected_type_of(e.val) ELSE "str",
                   state |-> e.names]
  IN IF HasEq(formula)
       THEN typed(eval(Strip(SplitRest(formula)), state))
       ELSE [type |-> "str", state |-> state]

\* lines 203-212: isinstance(value, (int, float, np.number)) holds of a bool too
type_accepted(expected_type, value) ==
  LET is_number == expected_type \in {"number", "int", "int64", "float"}
                     /\ value.t \in {"int", "float", "bool"}
      is_bool  == expected_type = "bool" /\ value.t = "bool"
      is_str   == expected_type = "str" /\ value.t = "str"
      is_tuple == expected_type = "tuple" /\ value.t = "tuple"
      is_list  == expected_type = "list" /\ value.t = "list"
      is_dict  == expected_type = "dict" /\ value.t = "dict"
  IN is_number \/ is_bool \/ is_str \/ is_tuple \/ is_list \/ is_dict

\* line 198: sampled_formula.startswith(default_assignment)
shape_accepted(sampled_formula, default_assignment) ==
  StartsWith(sampled_formula, default_assignment)

\* lines 178-194: the text the sampler's response stands for
sampled_formula_of(state, default_assignment, response) ==
  IF Get(state, kSampleMode, StrV(<<"full">>)) = StrV(<<"full">>)
    THEN response
    ELSE default_assignment \o Assign \o response

\* lines 214-220
sampled_line(default_assignment, value, use_lm_active) ==
  default_assignment \o Assign
    \o (IF value.t \in {"str", "tuple", "list", "dict"} THEN Repr(value) ELSE Format(value))
    \o (IF use_lm_active THEN Sampled ELSE <<>>)

\* lines 281-287
exhausted_line(state, default_assignment, use_lm_active) ==
  LET value == Get(state, default_assignment, Unknown) IN
  default_assignment \o Assign
    \o (IF value.t = "str" THEN <<"'">> \o value.v \o <<"'">> ELSE Format(value))
    \o (IF use_lm_active THEN Sampled ELSE <<>>)

\* run_formula_return with the test attempts > max_attempts
run_formula_return_late(state, f, max_attempts) ==
  IF f.attempts > max_attempts
    THEN [f EXCEPT !.output =
            Append(f.output, exhausted_line(state, f.default_assignment, f.use_lm_active))]
    ELSE f

\* run_formula_return without the test
run_formula_return_always(state, f, max_attempts) ==
  [f EXCEPT !.output =
     Append(f.output, exhausted_line(state, f.default_assignment, f.use_lm_active))]

\* lines 281-289: the end of run_formula, on the locals f
run_formula_return(state, f, max_attempts) ==
  IF f.attempts >= max_attempts
    THEN [f EXCEPT !.output =
            Append(f.output, exhausted_line(state, f.default_assignment, f.use_lm_active))]
    ELSE f

kPrompt == <<"prompt">>

\* the loop test with <= for <
loop_continues_once_more(attempts, max_attempts) == attempts <= max_attempts

\* line 162: while attempts < max_attempts
loop_continues(attempts, max_attempts) == attempts < max_attempts

\* lines 101-105: the operator's prompt field, read as a state key if it is
\* one, else the state's prompt
resolve_prompt(state, formula_data) ==
  IF kPrompt \in DOMAIN formula_data
    THEN IF formula_data[kPrompt].t = "str"
           THEN Get(state, formula_data[kPrompt].v, formula_data[kPrompt])
           ELSE formula_data[kPrompt]
    ELSE state[kPrompt]

\* Feedback without the text that was tried
Feedback_without_text(last_generated_text, error_message) ==
  <<"\n", "Feedback: You already tried (generated text:", " ">>
    \o <<") and got the following error:", " ">>
    \o error_message
    \o <<". ", "\n",
         "Please adjust and try again, making sure to closely follow the format of the example from the previous block, do not use apostrophes within strings but skip them or use a * instead, which avoids unterminated string errors in the special setting used here.">>

\* lines 167-176: the feedback block added to the prompt
Feedback(last_generated_text, error_message) ==
  <<"\n", "Feedback: You already tried (generated text:", " ">>
    \o last_generated_text
    \o <<") and got the following error:", " ">>
    \o error_message
    \o <<". ", "\n",
         "Please adjust and try again, making sure to closely follow the format of the example from the previous block, do not use apostrophes within strings but skip them or use a * instead, which avoids unterminated string errors in the special setting used here.">>

\* lines 223-226
type_mismatch_message(expected_type, value) ==
  <<"Type mismatch: Expected ", expected_type, ", got ", value.t, ".">>

\* line 230; {e} stands for the text of the exception
evaluation_error_message ==
  <<"Error evaluating sampled formula. Reason: ", "{e}", ". ">>

\* lines 234-243
pattern_error_message(default_assignment) ==
  <<"The response did not follow the expected pattern, which is a one-line python assignment formula as in the example from the previous block with the same left-hand side",
    " ", "(">>
    \o default_assignment
    \o <<").",
         " Do not otherwise communicate, only generate a one-line python formula inside single quations (no escape characters are required) and if the right-hand side is a string then use double quotes for the string and avoid apostrophes within it (skip them or use * instead).">>

\* lines 164-194: the arguments the sampler is called with in a pass of the
\* loop: the prompt and, in rhs_only mode, the context followed by the LHS
sampler_call(state, prompt, context, default_assignment) ==
  [prompt |-> prompt,
   context |-> IF Get(state, kSampleMode, StrV(<<"full">>)) = StrV(<<"full">>)
                 THEN context
                 ELSE context \o default_assignment \o Assign]

\* lines 163-247: one pass of the retry loop, on the sampler's response, and
\* the end of run_formula when the loop is left, or the call of the sampler in
\* the next pass (its prompt extended by the feedback, lines 167-176).
\* f holds run_formula's locals.  Result [state, f, returned].
sampling_attempt(state, f, max_attempts, response) ==
  LET accept(tried, names, value) ==
        LET assigned == Put(names, f.default_assignment, value)
            broke == [tried EXCEPT
                        !.output = Append(f.output,
                           sampled_line(f.default_assignment, value, f.use_lm_active)),
                        !.accepted = TRUE, !.value = value]
        IN [state |-> assigned,
            f |-> run_formula_return(assigned, broke, max_attempts),
            returned |-> TRUE]
      again(failed, names, prompt) ==
        [state |-> names,
         f |-> [failed EXCEPT
                  !.prompt = prompt,
                  !.calls = Append(f.calls,
                              sampler_call(names, prompt, f.context, f.default_assignment))],
         returned |-> FALSE]
      reject(tried, names, error_message) ==
        LET failed == [tried EXCEPT !.error_occurred = TRUE,
                                    !.error_message = error_message,
                                    !.attempts = f.attempts + 1]
        IN IF loop_continues(failed.attempts, max_attempts)
             THEN again(failed, names,
                        StrV(f.prompt.v \o Feedback(failed.last_generated_text, error_message)))
             ELSE [state |-> names,
                   f |-> run_formula_return(names, failed, max_attempts),
                   returned |-> TRUE]
      judge(tried, e) ==
        IF ~e.ok THEN reject(tried, e.names, evaluation_error_message)
        ELSE IF type_accepted(f.expected_type, e.val) THEN accept(tried, e.names, e.val)
        ELSE reject(tried, e.names, type_mismatch_message(f.expected_type, e.val))
      check(sampled_formula) ==
        IF ~shape_accepted(sampled_formula, f.default_assignment)
          THEN reject([f EXCEPT !.last_generated_text = sampled_formula], state,
                      pattern_error_message(f.default_assignment))
        ELSE IF ~HasEq(sampled_formula)
          THEN reject([f EXCEPT !.last_generated_text = sampled_formula], state,
                      evaluation_error_message)
        ELSE judge([f EXCEPT !.last_generated_text = sampled_formula],
                   eval(Strip(SplitRest(sampled_formula)), state))
  IN check(sampled_formula_of(state, f.default_assignment, response))

\* the dict at address a of world w = [state, heap]
DictAt(w, a) == IF a = 0 THEN w.state ELSE w.heap[a]

\* dict-at-a[k] = v
Store(w, a, k, v) ==
  IF a = 0 THEN [w EXCEPT !.state = Put(w.state, k, v)]
  ELSE [w EXCEPT !.heap[a] = Put(w.heap[a], k, v)]

\* lines 260-266: walk the keys from current_dict, creating the missing
\* dicts, and assign at the last key.  Result [ok, w]; ok = FALSE is the
\* exception of indexing a value that is no dict.
RECURSIVE assign_subscript(_, _, _, _, _)
assign_subscript(w, keys, i, current_dict, value) ==
  IF keys = <<>> THEN [ok |-> FALSE, w |-> w]
  ELSE IF i = Len(keys)
    THEN [ok |-> TRUE, w |-> Store(w, current_dict, keys[i], value)]
  ELSE IF keys[i] \notin DOMAIN DictAt(w, current_dict)
    THEN LET a == Len(w.heap) + 1
             w1 == [w EXCEPT !.heap = Append(w.heap, EmptyDict)]
         IN assign_subscript(Store(w1, current_dict, keys[i], DictV(a)),
                             keys, i + 1, a, value)
  ELSE IF DictAt(w, current_dict)[keys[i]].t = "dict"
    THEN assign_subscript(w, keys, i + 1, DictAt(w, current_dict)[keys[i]].v, value)
  ELSE [ok |-> FALSE, w |-> w]

\* direct_line with the suffix added whatever use_lm_active is
direct_line_suffixed(lhs, value, use_lm_active) ==
  lhs \o Assign
    \o (IF value.t = "str" THEN <<"\"">> \o value.v \o <<"\"">> ELSE Format(value))
    \o Sampled

\* lines 270-275
direct_line(lhs, value, use_lm_active) ==
  lhs \o Assign
    \o (IF value.t = "str" THEN <<"\"">> \o value.v \o <<"\"">> ELSE Format(value))
    \o (IF use_lm_active THEN Sampled ELSE <<>>)

\* lines 249-279: the branch taken when use_default holds
direct_evaluation(w, formula, use_lm_active) ==
  LET lhs == Strip(SplitHead(formula))
      line(value) == <<direct_line(lhs, value, use_lm_active)>>
      subscripted(a, value) ==
        [w |-> a.w, output |-> IF a.ok THEN line(value) ELSE <<>>]
      assign(w1, value) ==
        IF Find(lhs, "['", 1) # 0
          THEN subscripted(assign_subscript(w1, FindAllKeys(lhs, 1), 1, 0, value), value)
          ELSE [w |-> Store(w1, 0, lhs, value), output |-> line(value)]
      evaluated(e) ==
        IF ~e.ok THEN [w |-> [w EXCEPT !.state = e.names], output |-> <<>>]
        ELSE assign([w EXCEPT !.state = e.names], e.val)
  IN IF formula = <<"blank">> THEN [w |-> w, output |-> <<<<"#", " ", "\n">>>>]
     ELSE IF ~HasEq(formula) THEN [w |-> w, output |-> <<>>]
     ELSE evaluated(eval(Strip(SplitRest(formula)), w.state))

\* run_formula's locals before the call; calls is the record of the
\* sampler's calls in this run: the arguments of each
NoLocals ==
  [prompt |-> NoneV, context |-> <<>>, use_default |-> TRUE, use_lm_active |-> FALSE,
   default_assignment |-> <<>>, expected_type |-> "",
   attempts |-> 0, error_occurred |-> FALSE, last_generated_text |-> <<>>,
   error_message |-> <<>>, calls |-> <<>>,
   output |-> <<>>, accepted |-> FALSE, value |-> NoneV]

\* run_formula from its entry to its first call of the sampler, or to its
\* return when it calls none (lines 97-194, 248-289).
\* Result [state, heap, f, returned].
run_formula_enter(state0, heap0, formula_data, max_attempts, history) ==
  LET formula == formula_data[kFormula].v
      state1 == Put(state0, kState, DictV(0))
      prompt == resolve_prompt(state1, formula_data)
      query == Get(formula_data, kQuery, NoneV)
      called(x, f) ==
        IF loop_continues(0, max_attempts)
          THEN [state |-> x.state, heap |-> heap0,
                f |-> [f EXCEPT !.calls = <<sampler_call(x.state, prompt, f.context,
                                                         f.default_assignment)>>],
                returned |-> FALSE]
          ELSE [state |-> x.state, heap |-> heap0,
                f |-> run_formula_return(x.state, f, max_attempts), returned |-> TRUE]
      sampled(u, x) ==
        called(x, [NoLocals EXCEPT
                     !.prompt = prompt,
                     !.use_default = FALSE,
                     !.use_lm_active = u.use_lm_active,
                     !.default_assignment = Strip(SplitHead(formula)),
                     !.expected_type = x.type,
                     !.context = IF Truthy(query)
                                   THEN read_context(history, query, x.state)
                                   ELSE <<>>])
      direct(u, d) ==
        [state |-> d.w.state, heap |-> d.w.heap,
         f |-> run_formula_return(d.w.state,
                 [NoLocals EXCEPT !.prompt = prompt,
                                  !.use_lm_active = u.use_lm_active, !.output = d.output],
                 max_attempts),
         returned |-> TRUE]
      branch(u) ==
        IF ~u.use_default
          THEN sampled(u, expected_type_for(u.state, formula))
          ELSE direct(u, direct_evaluation([state |-> u.state, heap |-> heap0], formula,
                                           u.use_lm_active))
  IN branch(resolve_use_lm(state1, formula_data))

(***************************************************************************)
(* generate_operators (src/simulation_utils.py:387-537)                     *)
(* A configuration is [entities, variables, systems_definitions,            *)
(* default_values]: entities is the sequence of [name, variables] in the    *)
(* dict's order, the others are dicts.                                      *)
(***************************************************************************)
\* one template of preprocess_systems_definitions (lines 401-414)
preprocess_component(component) ==
  [k \in (DOMAIN component) \cup {kFormula, kQuery, kUseLm} |->
     IF k \in DOMAIN component THEN component[k]
     ELSE IF k = kFormula THEN StrV(<<>>)
     ELSE IF k = kQuery THEN NoneV
     ELSE BoolV(FALSE)]

preprocess_systems_definitions(systems_definitions) ==
  [system \in DOMAIN systems_definitions |->
     [i \in 1..Len(systems_definitions[system]) |->
        preprocess_component(systems_definitions[system][i])]]

\* s.replace(sym, by), sym one symbol
RECURSIVE Replace(_, _, _)
Replace(s, sym, by) ==
  IF s = <<>> THEN <<>>
  ELSE (IF Head(s) = sym THEN by ELSE <<Head(s)>>) \o Replace(Tail(s), sym, by)

\* f'operator_{n}_{entity}_{variable}'
default_op_id(n, entity, variable) ==
  <<"operator", "_", ToString(n), "_">> \o entity \o <<"_">> \o variable

\* lines 496-518: the operator of the template at 0-based position i
make_operator(formula_dict, i, entity, variable, world_entity, default_values) ==
  LET op_id == IF i = 0
                 THEN StrV(default_op_id(1, entity, variable))
                 ELSE Get(formula_dict, kId, StrV(default_op_id(i + 1, entity, variable)))
      formula == Replace(Replace(formula_dict[kFormula].v, "{entity}", entity),
                         "{world_entity}", world_entity)
      other == (DOMAIN formula_dict) \ {kFormula, kQuery, kUseLm}
      operator == [k \in {kId, kFormula, kQuery, kUseLm} \cup other |->
                     IF k \in other THEN formula_dict[k]
                     ELSE IF k = kId THEN op_id
                     ELSE IF k = kFormula THEN StrV(formula)
                     ELSE IF k = kQuery THEN Get(formula_dict, kQuery, NoneV)
                     ELSE Get(formula_dict, kUseLm, BoolV(FALSE))]
  IN [k \in (DOMAIN operator) \cup (DOMAIN default_values) |->
        IF k \in DOMAIN operator THEN operator[k] ELSE default_values[k]]

\* lines 476-518 for one variable of one entity
variable_systems(cfg, systems_definitions, entity, variable) ==
  IF variable \in DOMAIN systems_definitions
    THEN [i \in 1..Len(systems_definitions[variable]) |->
            make_operator(systems_definitions[variable][i], i - 1, entity, variable,
                          cfg.world_entity_name, cfg.default_values)]
    ELSE <<>>

RECURSIVE entity_systems(_, _, _, _)
entity_systems(cfg, systems_definitions, e, j) ==
  IF j > Len(e.variables) THEN <<>>
  ELSE variable_systems(cfg, systems_definitions, e.name, e.variables[j])
         \o entity_systems(cfg, systems_definitions, e, j + 1)

RECURSIVE all_systems_from(_, _, _)
all_systems_from(cfg, systems_definitions, n) ==
  IF n > Len(cfg.entities) THEN <<>>
  ELSE entity_systems(cfg, systems_definitions, cfg.entities[n], 1)
         \o all_systems_from(cfg, systems_definitions, n + 1)

\* wire_next with the last operator left pointing at itself
wire_next_unwrapped(all_systems) ==
  [i \in 1..Len(all_systems) |->
     IF kNext \notin DOMAIN all_systems[i]
       THEN Put(all_systems[i], kNext,
                IF i < Len(all_systems) THEN all_systems[i + 1][kId]
                                        ELSE all_systems[i][kId])
       ELSE all_systems[i]]

\* lines 521-527
wire_next(all_systems) ==
  [i \in 1..Len(all_systems) |->
     IF kNext \notin DOMAIN all_systems[i]
       THEN Put(all_systems[i], kNext,
                IF i < Len(all_systems) THEN all_systems[i + 1][kId]
                                        ELSE all_systems[1][kId])
       ELSE all_systems[i]]

\* the fragments of identifiers in the texts of the model
IdentifierSymbols ==
  {"len", "all", "any", "nope", "world", "agent", "other", "time", "flag", "x",
   "y", "a", "b", "_"}

\* lines 421-425: value is a string and its stripped text matches
\* ^[a-zA-Z_][a-zA-Z0-9_]*\s*\(.*\)$
is_callable_expression(value) ==
  /\ value.t = "str"
  /\ LET text == Strip(value.v)
         open == Find(text, "(", 1)
         identifier == RStrip(SubSeq(text, 1, open - 1))
     IN /\ open > 1
        /\ identifier # <<>>
        /\ \A i \in 1..Len(identifier) : identifier[i] \in IdentifierSymbols
        /\ text[Len(text)] = ")"
        /\ \A i \in open..Len(text) : text[i] # "\n"

\* lines 453-464: the value stored for one initial value; names is the
\* dict the compiler's evaluator is bound to
initial_component(initial_value, names) ==
  LET evaluated(e) == [value |-> IF e.ok THEN e.val ELSE initial_value,
                       names |-> e.names]
  IN IF is_callable_expression(initial_value)
       THEN evaluated(eval(initial_value.v, names))
       ELSE [value |-> initial_value, names |-> names]

\* lines 452-464 for the attributes todo of one variable (the variables of the
\* model have one attribute each); acc is [components, names]
RECURSIVE attribute_components(_, _, _, _)
attribute_components(entity, attrs, todo, acc) ==
  IF todo = {} THEN acc
  ELSE LET c == CHOOSE c \in todo : TRUE
           stored(r) ==
             attribute_components(entity, attrs, todo \ {c},
               [components |-> Put(acc.components, entity \o <<"_">> \o c, r.value),
                names |-> r.names])
       IN stored(initial_component(attrs[c], acc.names))

\* lines 449-467: components[f'{entity}_{component_name}'] = initial_value, in
\* the order of the entities and of their variables (a later one overwrites)
RECURSIVE variable_components(_, _, _, _)
variable_components(cfg, n, j, acc) ==
  IF n > Len(cfg.entities) THEN acc
  ELSE IF j > Len(cfg.entities[n].variables)
    THEN variable_components(cfg, n + 1, 1, acc)
  ELSE LET attrs == cfg.variables[cfg.entities[n].variables[j]] IN
       variable_components(cfg, n, j + 1,
         attribute_components(cfg.entities[n].name, attrs, DOMAIN attrs, acc))

\* lines 529-536
DefaultState ==
  (<<"agent", "_", "index">> :> IntV(0))
    @@ (<<"prompt">> :> StrV(<<>>))
    @@ (<<"max", "_", "context", "_", "length">> :> IntV(MaxContextLength))
    @@ (kSampleMode :> StrV(<<"full">>))
    @@ (<<"all">> :> BoolV(TRUE))

\* generate_operators: [operators, state]
generate_operators(cfg) ==
  LET systems_definitions == preprocess_systems_definitions(cfg.systems_definitions)
      \* state.update(components), then the defaults of lines 529-536
      updated(acc) ==
        [k \in (DOMAIN acc.names) \cup (DOMAIN acc.components) \cup (DOMAIN DefaultState) |->
           IF k \in DOMAIN DefaultState THEN DefaultState[k]
           ELSE IF k \in DOMAIN acc.components THEN acc.components[k]
           ELSE acc.names[k]]
  IN [operators |-> wire_next(all_systems_from(cfg, systems_definitions, 1)),
      state |-> updated(variable_components(cfg, 1, 1,
                  [components |-> EmptyDict, names |-> (kState :> DictV(0))]))]

(***************************************************************************)
(* Configurations                                                           *)
(***************************************************************************)
MaxSteps    == 4   \* steps the driver is followed for
MaxAttempts == 2   \* the driver's max_attempts is drawn from 1..MaxAttempts
MaxEndTime  == 2   \* end_time is drawn from 0..MaxEndTime

World == <<"world">>
Agent == <<"agent">>
Other == <<"other">>
Clock == <<"clock">>
Move  == <<"move">>
Flags == <<"flags">>

Entity(name, variables) == [name |-> name, variables |-> variables]
Template(formula) == (kFormula :> StrV(formula))
WithId(t, id)     == Put(t, kId, StrV(id))
WithNext(t, next) == Put(t, kNext, StrV(next))
WithUseLm(t, u)   == Put(t, kUseLm, u)
WithPrompt(t, p)  == Put(t, kPrompt, StrV(p))
WithQuery(t, q)   == Put(t, kQuery, QueryV(q))
WithProperty(t, k, v) == Put(t, k, v)

kForSummary == <<"for", "_", "summary">>
kWorldTime == <<"world", "_", "time">>
kAll == <<"all">>
Yes == StrV(<<"Yes">>)
BeBrief == <<"Be brief">>

\* formula templates
fClock == <<"{world_entity}", "_", "time", " ", "=", " ", "world", "_", "time", " ", "+", " ", "1">>
fBad   == <<"{world_entity}", "_", "time", " ", "=", " ", "nope", " ", "+", " ", "1">>
\* a right-hand side that binds world_time in a comprehension and then raises
fLeak  == <<"{world_entity}", "_", "time", " ", "=", " ",
            "[", "world", "_", "time", " ", "for", " ", "world", "_", "time", " ",
            "in", " ", "[", "1", ",", " ", "2", "]", "]", " ", "+", " ", "1">>
fReset == <<"{world_entity}", "_", "time", " ", "=", " ", "0">>
fFlag  == <<"world", "_", "flag", " ", "=", " ", "True">>
fAll   == <<"world", "_", "flag", " ", "=", " ", "all", "(", "[", "True", "]", ")">>
fAny   == <<"world", "_", "flag", " ", "=", " ", "any", "(", "[", "True", "]", ")">>
fSub   == <<"{entity}", "['", "pos", "']", "['", "x", "']", " ", "=", " ", "world", "_", "time">>
fSubBad == <<"{entity}", "['", "prompt", "']", "['", "x", "']", " ", "=", " ", "world", "_", "time">>
fBlank == <<"blank">>
fInt   == <<"{entity}", "_", "x", " ", "=", " ", "0">>
fBool  == <<"{entity}", "_", "x", " ", "=", " ", "True">>
fStr   == <<"{entity}", "_", "x", " ", "=", " ", "'a'">>
CondNext == <<"'C'", " ", "if", " ", "world", "_", "flag", " ", "else", " ", "'B'">>

Variables(x) ==
  (Clock :> (<<"time">> :> IntV(0)))
    @@ (Flags :> (<<"flag">> :> BoolV(FALSE)))
    @@ (Move :> (<<"x">> :> x))

Config(entities, systems_definitions, x, default_values) ==
  [entities |-> entities, variables |-> Variables(x),
   systems_definitions |-> systems_definitions,
   world_entity_name |-> World, default_values |-> default_values]

\* the Clock scenario: one entity, one operator that rings to itself
ClockConfig ==
  Config(<<Entity(World, <<Clock>>)>>, (Clock :> <<Template(fClock)>>),
         IntV(0), EmptyDict)

\* the configurations the driver is run on
DriverConfigs ==
  { ClockConfig,
    \* a clock and an integer the sampler moves
    Config(<<Entity(World, <<Clock>>), Entity(Agent, <<Move>>)>>,
           (Clock :> <<Template(fClock)>>)
             @@ (Move :> <<WithUseLm(Template(fInt), BoolV(TRUE))>>),
           IntV(0), EmptyDict),
    \* a Boolean the sampler sets
    Config(<<Entity(Agent, <<Move>>)>>,
           (Move :> <<WithUseLm(Template(fBool), BoolV(TRUE))>>),
           BoolV(TRUE), EmptyDict),
    \* a string, sampled once world_flag holds (use_lm is an expression)
    Config(<<Entity(World, <<Flags>>), Entity(Agent, <<Move>>)>>,
           (Flags :> <<Template(fFlag)>>)
             @@ (Move :> <<WithUseLm(Template(fStr), StrV(<<"world", "_", "flag">>))>>),
           StrV(<<"a">>), EmptyDict),
    \* direct evaluation: a nested subscript assigned at every second step
    Config(<<Entity(World, <<Clock>>), Entity(Agent, <<Move>>)>>,
           (Clock :> <<Template(fClock)>>) @@ (Move :> <<Template(fSub)>>),
           IntV(0), EmptyDict),
    \* direct evaluation: a formula that fails, and blank
    Config(<<Entity(World, <<Clock>>)>>,
           (Clock :> <<Template(fClock), Template(fBad), Template(fSubBad),
                       Template(fBlank)>>),
           IntV(0), EmptyDict),
    \* direct evaluation: a formula that fails after a comprehension has run
    Config(<<Entity(World, <<Clock>>)>>,
           (Clock :> <<Template(fClock), Template(fLeak)>>),
           IntV(0), EmptyDict),
    \* conditional next: A -> (C if world_flag else B); B sets the flag
    Config(<<Entity(World, <<Flags, Clock>>)>>,
           (Flags :> <<WithNext(WithId(Template(fBlank), <<"A">>), CondNext),
                       WithNext(WithId(Template(fFlag), <<"B">>), <<"A">>)>>)
             @@ (Clock :> <<WithNext(WithId(Template(fClock), <<"C">>), <<"A">>)>>),
           IntV(0), EmptyDict),
    \* the same without an operator C
    Config(<<Entity(World, <<Flags>>)>>,
           (Flags :> <<WithNext(WithId(Template(fBlank), <<"A">>), CondNext),
                       WithNext(WithId(Template(fFlag), <<"B">>), <<"A">>)>>),
           IntV(0), EmptyDict),
    \* a template whose next names no operator
    Config(<<Entity(World, <<Clock>>)>>,
           (Clock :> <<WithNext(Template(fClock), <<"Z">>)>>),
           IntV(0), EmptyDict),
    \* a clock marked for the summary, an LM operator with a prompt of its
    \* own, and one without that reads the summary as its context
    Config(<<Entity(World, <<Clock>>), Entity(Agent, <<Move>>)>>,
           (Clock :> <<WithProperty(Template(fClock), kForSummary, Yes)>>)
             @@ (Move :> <<WithPrompt(WithUseLm(Template(fInt), BoolV(TRUE)), BeBrief),
                           WithQuery(WithUseLm(Template(fInt), BoolV(TRUE)),
                                     (kForSummary :> Yes))>>),
           IntV(0), EmptyDict),
    \* a prompt that names a state key
    Config(<<Entity(World, <<Clock>>), Entity(Agent, <<Move>>)>>,
           (Clock :> <<Template(fClock)>>)
             @@ (Move :> <<WithPrompt(WithUseLm(Template(fInt), BoolV(TRUE)), kSampleMode)>>),
           IntV(0), EmptyDict),
    \* use_lm expressions that evaluate to a function and to an integer
    Config(<<Entity(World, <<Clock>>), Entity(Agent, <<Move>>)>>,
           (Clock :> <<Template(fClock)>>)
             @@ (Move :> <<WithUseLm(Template(fInt), StrV(<<"len">>))>>),
           IntV(0), EmptyDict),
    Config(<<Entity(World, <<Clock>>), Entity(Agent, <<Move>>)>>,
           (Clock :> <<Template(fClock)>>)
             @@ (Move :> <<WithUseLm(Template(fInt), StrV(<<"world", "_", "time">>))>>),
           IntV(0), EmptyDict),
    \* formulas that call all and any
    Config(<<Entity(World, <<Flags>>)>>,
           (Flags :> <<Template(fAll), Template(fAny)>>),
           IntV(0), EmptyDict),
    \* a clock that another operator sets back
    Config(<<Entity(World, <<Clock>>)>>,
           (Clock :> <<Template(fClock), Template(fReset)>>),
           IntV(0), EmptyDict),
    \* an operator with a property under the name its formula assigns, and
    \* one without the property that assigns the name
    Config(<<Entity(World, <<Flags>>)>>,
           (Flags :> <<WithProperty(Template(fFlag), <<"world", "_", "flag">>,
                                    BoolV(FALSE)),
                       Template(fFlag)>>),
           IntV(0), EmptyDict),
    \* a use_lm expression that is false at the first step and true later
    Config(<<Entity(Agent, <<Move>>), Entity(World, <<Flags>>)>>,
           (Flags :> <<Template(fFlag)>>)
             @@ (Move :> <<WithUseLm(Template(fInt), StrV(<<"world", "_", "flag">>))>>),
           IntV(0), EmptyDict) }

\* the configurations generate_operators is checked on: every choice of
\* entities (one component on one entity, on two, beside another component),
\* of the templates of the component move (with and without ids and next)
\* and of the defaults
GenEntities ==
  { <<Entity(Agent, <<Move>>)>>,
    <<Entity(Agent, <<Move>>), Entity(Other, <<Move>>)>>,
    <<Entity(World, <<Clock>>), Entity(Agent, <<Move>>)>>,
    <<Entity(World, <<Clock, Move>>), Entity(Agent, <<Move>>)>> }

GenTemplates ==
  { <<Template(fInt)>>,
    <<Template(fInt), Template(fBlank)>>,
    <<WithId(Template(fInt), <<"m", "1">>), WithId(Template(fBlank), <<"m", "2">>)>>,
    <<Template(fInt), WithId(Template(fBlank), <<"m", "2">>)>>,
    <<WithNext(Template(fInt), CondNext)>>,
    <<WithNext(WithId(Template(fInt), <<"m", "1">>), <<"m", "1">>)>>,
    <<Template(fInt), WithNext(Template(fBlank), <<"Z">>)>>,
    <<WithNext(Template(fInt), CondNext), Template(fBlank)>>,
    <<WithProperty(WithUseLm(Template(fInt), BoolV(FALSE)), <<"tag">>, StrV(<<"b">>)),
      Template(fBlank)>> }

GenDefaults ==
  { EmptyDict,
    (kNext :> StrV(<<"Z">>)),
    (<<"tag">> :> StrV(<<"a">>)),
    (kUseLm :> BoolV(TRUE)) @@ (kQuery :> QueryV(kAll :> BoolV(TRUE))) }

\* initial values of the component move: a literal, callable expressions
\* that evaluate, and ones that raise
GenInitials ==
  << IntV(0),
     StrV(<<"len", "(", "[", "1", ",", " ", "2", "]", ")">>),
     StrV(<<"nope", "(", "1", ")">>),
     StrV(<<"len", "(", "1", ")">>) >>

GenConfigs(x) ==
  { Config(entities, (Clock :> <<Template(fClock)>>) @@ (Move :> templates),
           x, default_values) :
      entities \in GenEntities, templates \in GenTemplates,
      default_values \in GenDefaults }

\* the histories, queries and states read_context is checked on
MaxHistory      == 2   \* steps of a history
MaxContextChars == 3   \* max_context_length is drawn from 0..MaxContextChars

No  == StrV(<<"No">>)

\* output lines: two assignments and the line of a blank operator
LineA     == <<"a">>
LineBC    == <<"b", "c">>
LineBlank == <<"#", " ", "\n">>

StepStates ==
  { (kAll :> BoolV(TRUE)),
    (kAll :> BoolV(TRUE)) @@ (kForSummary :> Yes),
    (kAll :> BoolV(TRUE)) @@ (kForSummary :> No),
    (kAll :> BoolV(FALSE)) @@ (kForSummary :> Yes) }

StepOutputs == { <<>>, <<LineA>>, <<LineBlank>>, <<LineBC, LineA>> }

Steps ==
  { [state |-> st, output |-> output, operator_id |-> StrV(<<"op">>)] :
      st \in StepStates, output \in StepOutputs }

RECURSIVE HistoriesOfLength(_)
HistoriesOfLength(n) ==
  IF n = 0 THEN {<<>>}
  ELSE {Append(h, step) : h \in HistoriesOfLength(n - 1), step \in Steps}

Histories == UNION {HistoriesOfLength(n) : n \in 0..MaxHistory}

\* the query of an operator: None, or a dict
Queries ==
  { NoneV,
    QueryV(kAll :> BoolV(TRUE)),
    QueryV(kAll :> IntV(1)),
    QueryV(kForSummary :> Yes),
    QueryV(kForSummary :> ListV(<<Yes, No>>)),
    QueryV(kForSummary :> NoneV),
    QueryV(kForSummary :> StrV(<<"wanted">>)),
    QueryV((kAll :> BoolV(TRUE)) @@ (kForSummary :> Yes)) }

\* the current state: max_context_length, and a key a query value may name
ContextStates ==
  { (kMaxContextLength :> IntV(m)) @@ (<<"wanted">> :> No) :
      m \in 0..MaxContextChars }

\* the expressions and name tables Evaluator.eval is checked on: every text
\* of the table Parse and one that is no expression
EvalExpressions ==
  { <<"0">>, <<"1">>, <<"True">>, <<"None">>, <<"'a'">>, <<"nope">>,
    <<"world", "_", "time">>,
    <<"world", "_", "time", " ", "+", " ", "1">>,
    <<"nope", " ", "+", " ", "1">>,
    <<"[", "agent", "_", "x", " ", "for", " ", "agent", "_", "x", " ", "in", " ",
      "[", "1", ",", " ", "2", "]", "]">>,
    <<"[", "world", "_", "time", " ", "for", " ", "world", "_", "time", " ",
      "in", " ", "[", "1", ",", " ", "2", "]", "]", " ", "+", " ", "1">>,
    <<"world", "_", "flag">>,
    CondNext,
    <<"len", "(", "[", "1", ",", " ", "2", "]", ")">>,
    <<"len", "(", "1", ")">>,
    <<"nope", "(", "1", ")">>,
    <<"world", "_", "time", "(", "1", ")">>,
    <<"'a'", ".", "upper", "(", ")">>,
    <<"agent", "_", "x", ".", "upper", "(", ")">>,
    <<"agent", "_", "x", ".", "nope", "(", ")">>,
    <<"1", " ", "+">> }

EvalValues == <<IntV(0), BoolV(TRUE), StrV(<<"a">>), StrV(<<"b">>)>>

EvalNames(n, b, i) ==
  (<<"world", "_", "time">> :> IntV(n)) @@ (<<"world", "_", "flag">> :> BoolV(b))
    @@ (<<"agent", "_", "x">> :> EvalValues[i])

\* what the sampler may answer
Responses ==
  { <<"agent", "_", "x", " ", "=", " ", "1">>,
    <<"agent", "_", "x", " ", "=", " ", "True">>,
    <<"agent", "_", "x", " ", "=", " ", "'b'">>,
    <<"agent", "_", "x", "y", " ", "=", " ", "2">>,
    <<"agent", "_", "y", " ", "=", " ", "1">>,
    <<"agent", "_", "x", " ", "=", " ", "nope">>,
    <<"agent", "_", "x", " ", "=", " ",
      "[", "agent", "_", "x", " ", "for", " ", "agent", "_", "x", " ", "in", " ",
      "[", "1", ",", " ", "2", "]", "]">>,
    <<"agent", "_", "x">>,
    <<"1">> }

(***************************************************************************)
(* The state machine                                                        *)
(***************************************************************************)
VARIABLES
  config,               \* the configuration handed to generate_operators
  pc,                   \* "config", "compiled", "ready", "sampling", "yielded",
                        \* "crashed", "sampler raised", "returned"
  operators,            \* the compiled operators
  state,                \* the contents of the driver's state dict
  heap,                 \* the contents of the other dicts, by address
  history,              \* the driver's history
  current_operator_id,
  max_attempts,
  formula_data,         \* the operator of the current step
  locals,               \* run_formula's locals
  entry,                \* the state and heap run_formula was entered with
  end_time,             \* generate_simulation_stream's end_time; None when the
                        \* generator is driven by another caller
  editor                \* the ECSEditor object; None when no editor is open

vars == <<config, pc, operators, state, heap, history, current_operator_id,
          max_attempts, formula_data, locals, entry, end_time, editor>>

NoEntry == [state |-> EmptyDict, heap |-> <<>>]

InitWith(configs) ==
  /\ end_time = NoneV
  /\ editor = NoneV
  /\ config \in configs
  /\ pc = "config"
  /\ operators = <<>>
  /\ state = EmptyDict
  /\ heap = <<>>
  /\ history = <<>>
  /\ current_operator_id = NoneV
  /\ max_attempts = 0
  /\ formula_data = EmptyDict
  /\ locals = NoLocals
  /\ entry = NoEntry

Init == InitWith(DriverConfigs)

\* operators, initial_state = generate_operators(...)
GenerateOperators ==
  /\ pc = "config"
  /\ LET compiled(g) == operators' = g.operators /\ state' = g.state
     IN compiled(generate_operators(config))
  /\ pc' = "compiled"
  /\ UNCHANGED <<end_time, editor, config, heap, history, current_operator_id, max_attempts,
                 formula_data, locals, entry>>

\* simulation_stream_generator, lines 308-314, started at the first operator.
\* The caller chooses max_attempts and may set sample_mode in initial_state.
\* initial_state.copy() is a new dict; its 'state' entry still is initial_state,
\* kept at heap[1].
Start ==
  /\ pc = "compiled"
  /\ operators # <<>>
  /\ \E m \in 1..MaxAttempts, mode \in {<<"full">>, <<"rhs", "_", "only">>} :
       LET initial_state == Put(Put(state, kSampleMode, StrV(mode)), kState, DictV(1)) IN
       /\ max_attempts' = m
       /\ heap' = <<initial_state>>
       /\ state' = Put(Put(initial_state, <<"np">>, HandleV("numpy")),
                       <<"sampling">>, FuncV(<<"sampling">>))
  /\ history' = <<>>
  /\ current_operator_id' = operators[1][kId]
  /\ pc' = "ready"
  /\ UNCHANGED <<end_time, editor, config, operators, formula_data, locals, entry>>

\* lines 331-336
step_data(st, output, operator_id) ==
  [state |-> st, output |-> output, operator_id |-> operator_id]

\* with_properties with no key left out
with_properties_all(st, fd) ==
  [k \in (DOMAIN st) \cup (DOMAIN fd) |-> IF k \in DOMAIN fd THEN fd[k] ELSE st[k]]

\* with_properties with prompt left out as well
with_properties_less(st, fd) ==
  [k \in (DOMAIN st) \cup ((DOMAIN fd) \ {kId, kFormula, kNext, kPrompt}) |->
     IF k \in (DOMAIN fd) \ {kId, kFormula, kNext, kPrompt} THEN fd[k] ELSE st[k]]

\* lines 322-324
with_properties(st, fd) ==
  [k \in (DOMAIN st) \cup ((DOMAIN fd) \ {kId, kFormula, kNext}) |->
     IF k \in (DOMAIN fd) \ {kId, kFormula, kNext} THEN fd[k] ELSE st[k]]

\* lookup that gives the first operator whatever the id
lookup_first(ops, id) == IF ops = <<>> THEN EmptyDict ELSE ops[1]

\* lines 317-319: the first operator with the id, <<>> if there is none
lookup(ops, id) ==
  LET found == {i \in 1..Len(ops) : ops[i][kId] = id} IN
  IF found = {} THEN EmptyDict
  ELSE ops[CHOOSE i \in found : \A j \in found : i <= j]

\* lines 317-338 up to the first call of the sampler, or to the yield
BeginStep ==
  /\ pc = "ready"
  /\ Len(history) < MaxSteps
  /\ LET entered(fd, st, r) ==
           /\ formula_data' = fd
           /\ entry' = [state |-> st, heap |-> heap]
           /\ state' = r.state
           /\ heap' = r.heap
           /\ locals' = r.f
           /\ IF r.returned
                THEN /\ history' = Append(history,
                                     step_data(r.state, r.f.output, current_operator_id))
                     /\ pc' = "yielded"
                ELSE /\ history' = history
                     /\ pc' = "sampling"
         run(fd, st) == entered(fd, st, run_formula_enter(st, heap, fd, max_attempts, history))
         found(fd) ==
           IF fd = EmptyDict
             THEN /\ pc' = "crashed"
                  /\ UNCHANGED <<state, heap, history, formula_data, locals, entry>>
             ELSE run(fd, with_properties(state, fd))
     IN found(lookup(operators, current_operator_id))
  /\ UNCHANGED <<end_time, editor, config, operators, current_operator_id, max_attempts>>

\* one answer of the sampler: the pass of the retry loop it ends and, when
\* run_formula returns, lines 331-338
Attempt ==
  /\ pc = "sampling"
  /\ LET answered(r) ==
           /\ state' = r.state
           /\ locals' = r.f
           /\ IF r.returned
                THEN /\ history' = Append(history,
                                     step_data(r.state, r.f.output, current_operator_id))
                     /\ pc' = "yielded"
                ELSE /\ history' = history
                     /\ pc' = "sampling"
     IN \E response \in Responses :
          answered(sampling_attempt(state, locals, max_attempts, response))
  /\ UNCHANGED <<end_time, editor, config, operators, heap, current_operator_id, max_attempts,
                 formula_data, entry>>

\* line 340: ' if ' in f' {formula_data["next"]} '
is_conditional(next) == ContainsText(<<" ">> \o Format(next) \o <<" ">>, <<" ", "if", " ">>)

\* end_test with > for >=
end_test_late(step, end) ==
  IF kWorldTime \notin DOMAIN step.state THEN "raise"
  ELSE IF step.state[kWorldTime].t \notin {"int", "bool"} THEN "raise"
  ELSE IF NumOf(step.state[kWorldTime]) > end.v THEN "stop"
  ELSE "go on"

\* generate_simulation_stream, line 381, on the step just yielded: "stop",
\* "go on", or "raise" when the snapshot has no world_time (KeyError) or one
\* that is no number (TypeError)
end_test(step, end) ==
  IF kWorldTime \notin DOMAIN step.state THEN "raise"
  ELSE IF step.state[kWorldTime].t \notin {"int", "bool"} THEN "raise"
  ELSE IF NumOf(step.state[kWorldTime]) >= end.v THEN "stop"
  ELSE "go on"

\* lines 340-348; under generate_simulation_stream the generator is resumed
\* by the next(gen) of line 378 only when the loop goes on
ComputeNext ==
  /\ pc = "yielded"
  /\ end_time # NoneV => end_test(history[Len(history)], end_time) = "go on"
  /\ LET evaluated(e) ==
           /\ state' = e.names
           /\ IF e.ok
                THEN /\ current_operator_id' = e.val
                     /\ pc' = "ready"
                ELSE /\ current_operator_id' = current_operator_id
                     /\ pc' = "crashed"
     IN IF is_conditional(formula_data[kNext])
          THEN evaluated(eval(Strip(formula_data[kNext].v), state))
          ELSE /\ current_operator_id' = formula_data[kNext]
               /\ state' = state
               /\ pc' = "ready"
  /\ UNCHANGED <<end_time, editor, config, operators, heap, history, max_attempts, formula_data,
                 locals, entry>>

\* the sampler raises (sample_text gives up with a RuntimeError): the call of
\* lines 178-194 is in no try block, so the exception leaves run_formula and
\* the generator; nothing is appended or yielded and the generator is finished
SamplerRaises ==
  /\ pc = "sampling"
  /\ pc' = "sampler raised"
  /\ UNCHANGED <<end_time, editor, config, operators, state, heap, history, current_operator_id,
                 max_attempts, formula_data, locals, entry>>

Next ==
  GenerateOperators \/ Start \/ BeginStep \/ Attempt \/ SamplerRaises \/ ComputeNext

Spec == Init /\ [][Next]_vars

\* generate_simulation_stream, lines 381-384: the loop is left and the
\* stream returned, or the test raises
Return ==
  /\ pc = "yielded"
  /\ end_time # NoneV
  /\ end_test(history[Len(history)], end_time) # "go on"
  /\ pc' = IF end_test(history[Len(history)], end_time) = "stop"
             THEN "returned" ELSE "crashed"
  /\ UNCHANGED <<end_time, editor, config, operators, state, heap, history,
                 current_operator_id, max_attempts, formula_data, locals, entry>>

\* generate_simulation_stream on generate_operators' result, with end_time
\* drawn from 0..MaxEndTime; the stream is the history
InitStream ==
  /\ end_time \in {IntV(n) : n \in 0..MaxEndTime}
  /\ editor = NoneV
  /\ config \in DriverConfigs
  /\ pc = "config"
  /\ operators = <<>>
  /\ state = EmptyDict
  /\ heap = <<>>
  /\ history = <<>>
  /\ current_operator_id = NoneV
  /\ max_attempts = 0
  /\ formula_data = EmptyDict
  /\ locals = NoLocals
  /\ entry = NoEntry

NextStream == Next \/ Return

\* the test of line 381 follows every next(gen) that returns a step
SpecStream == InitStream /\ [][NextStream]_vars /\ WF_vars(Return)

\* the context build of run_formula (lines 156-160) alone, on the histories,
\* queries and states above
InitContext ==
  /\ end_time = NoneV
  /\ editor = NoneV
  /\ config = EmptyDict
  /\ pc = "context"
  /\ operators = <<>>
  /\ state \in ContextStates
  /\ heap = <<>>
  /\ history \in Histories
  /\ current_operator_id = NoneV
  /\ max_attempts = 0
  /\ formula_data \in {(kQuery :> query) : query \in Queries}
  /\ locals = NoLocals
  /\ entry = NoEntry

\* lines 156-160
ReadContext ==
  /\ pc = "context"
  /\ locals' = [locals EXCEPT !.context =
                  IF Truthy(formula_data[kQuery])
                    THEN read_context(history, formula_data[kQuery], state)
                    ELSE <<>>]
  /\ pc' = "context read"
  /\ UNCHANGED <<end_time, editor, config, operators, state, heap, history, current_operator_id,
                 max_attempts, formula_data, entry>>

SpecContext == InitContext /\ [][ReadContext]_vars

\* one evaluation alone: s = evaluator(task_name); s.names = state;
\* s.eval(expr), on the expressions and name tables above
InitEval ==
  /\ end_time = NoneV
  /\ editor = NoneV
  /\ config = EmptyDict
  /\ pc = "expression"
  /\ operators = <<>>
  /\ \E n \in {0, 1}, b \in BOOLEAN, i \in DOMAIN EvalValues : state = EvalNames(n, b, i)
  /\ heap = <<>>
  /\ history = <<>>
  /\ current_operator_id = NoneV
  /\ max_attempts = 0
  /\ formula_data \in {(kFormula :> StrV(expr)) : expr \in EvalExpressions}
  /\ locals = NoLocals
  /\ entry = NoEntry

\* value = s.eval(expr), or the exception it raises
Evaluate ==
  /\ pc = "expression"
  /\ LET evaluated(e) ==
           /\ state' = e.names
           /\ locals' = [locals EXCEPT !.value = e.val, !.error_occurred = ~e.ok]
     IN evaluated(eval(formula_data[kFormula].v, state))
  /\ entry' = [state |-> state, heap |-> heap]
  /\ pc' = "evaluated"
  /\ UNCHANGED <<end_time, editor, config, operators, heap, history, current_operator_id,
                 max_attempts, formula_data>>

SpecEval == InitEval /\ [][Evaluate]_vars

\* generate_operators alone, on the configurations GenConfigs
InitGen == \E i \in DOMAIN GenInitials : InitWith(GenConfigs(GenInitials[i]))

SpecGen == InitGen /\ [][GenerateOperators]_vars

(***************************************************************************)
(* ECSEditor (src/editor.py).  An editor is a record ed of the object's     *)
(* fields that the handlers below read:                                     *)
(*   entities            - ecs['entities'] as the sequence of               *)
(*                         [name, components] in the dict's order           *)
(*   variables           - ecs['variables'], by component name              *)
(*   systems_definitions - ecs['systems_definitions'], by component name    *)
(*   current_entity, current_component, current_operator_index,             *)
(*   current_operator_field                                                 *)
(* and of three fields about the session: `calls`, the number of handler   *)
(* calls so far, `call`, the name of the last handler called, and `raised`, *)
(* the exception it ended with ("" for none).  A handler is                 *)
(* an operator from ed to the editor it leaves behind; what it wrote        *)
(* before an exception stays written.  Every operator has an id, and it is  *)
(* the first key of its dict.                                               *)
(***************************************************************************)
MaxEntities   == 2   \* entities the handlers are let to add
MaxComponents == 2   \* components in ecs['variables']
MaxOperators  == 2   \* operators of one component
MaxCalls      == 7   \* handler calls of one session

Raise(ed, exception) == [ed EXCEPT !.raised = exception]

SeqMin(S) == CHOOSE i \in S : \A j \in S : i <= j

\* `name in self.ecs['entities']` and self.ecs['entities'][name]
has_entity(ed, name) == \E i \in 1..Len(ed.entities) : ed.entities[i].name = name
entity_index(ed, name) == CHOOSE i \in 1..Len(ed.entities) : ed.entities[i].name = name
components_of(ed, name) == ed.entities[entity_index(ed, name)].components
contains(components, name) == \E i \in 1..Len(components) : components[i] = name

\* self.ecs['entities'][name] = components
with_components(ed, name, components) ==
  [ed EXCEPT !.entities[entity_index(ed, name)].components = components]

\* del d[k]
Del(d, k) == [x \in (DOMAIN d) \ {k} |-> d[x]]

\* list.pop(i) and list.remove(x), i counted from 1
Pop(xs, i) == SubSeq(xs, 1, i - 1) \o SubSeq(xs, i + 1, Len(xs))
Swapped(xs, i, j) == [xs EXCEPT ![i] = xs[j], ![j] = xs[i]]

\* lines 822-888: the exception refresh_gui ends with, if any
refresh_gui(ed) ==
  LET entity == ed.current_entity
      component == ed.current_component
      index == ed.current_operator_index
      listed == IF Truthy(component) THEN ed.systems_definitions[component.v]
                                        ELSE <<>>
  IN \* lines 825-827
     IF Truthy(entity) /\ ~has_entity(ed, entity.v) THEN Raise(ed, "KeyError")
     \* lines 828-837
     ELSE IF Truthy(component) /\ component.v \notin DOMAIN ed.variables
       THEN Raise(ed, "KeyError")
     ELSE IF Truthy(component) /\ component.v \notin DOMAIN ed.systems_definitions
       THEN Raise(ed, "KeyError")
     \* lines 838-842
     ELSE IF listed # <<>> /\ index # NoneV /\ index.v >= Len(listed)
       THEN Raise(ed, "IndexError")
     \* lines 864-871
     ELSE IF Truthy(ed.current_operator_field) /\ index # NoneV /\ ~Truthy(component)
       THEN Raise(ed, "KeyError")
     \* lines 877-880
     ELSE IF index # NoneV /\ index.v >= Len(listed) THEN Raise(ed, "IndexError")
     ELSE ed

\* lines 1120-1158
on_operator_select(ed, selected_operator_id) ==
  LET component == ed.current_component IN
  IF component = NoneV \/ component.v \notin DOMAIN ed.systems_definitions
    THEN Raise(ed, "KeyError")
  ELSE
  LET listed == ed.systems_definitions[component.v]
      found == {i \in 1..Len(listed) : listed[i][kId] = StrV(selected_operator_id)}
  IN IF found = {} THEN [ed EXCEPT !.current_operator_index = NoneV]
     ELSE refresh_gui([ed EXCEPT !.current_operator_index = IntV(SeqMin(found) - 1),
                                 !.current_operator_field = StrV(kId)])

\* lines 1080-1103
on_component_select(ed, component) ==
  LET e1 == [ed EXCEPT !.current_component = StrV(component)]
      listed == Get(e1.systems_definitions, component, <<>>)
      e2 == IF listed # <<>> /\ kId \in DOMAIN listed[1]
              THEN on_operator_select(e1, listed[1][kId].v)
              ELSE [e1 EXCEPT !.current_operator_index = NoneV,
                              !.current_operator_field = NoneV]
  IN IF e2.raised # "" THEN e2
     ELSE IF component \notin DOMAIN e2.variables THEN Raise(e2, "KeyError")
     ELSE refresh_gui(e2)

\* lines 1060-1078
on_entity_select(ed, entity) ==
  LET e1 == [ed EXCEPT !.current_entity = StrV(entity)] IN
  IF has_entity(e1, entity) /\ components_of(e1, entity) # <<>>
    THEN on_component_select(e1, components_of(e1, entity)[1])
    ELSE refresh_gui([e1 EXCEPT !.current_component = NoneV,
                                !.current_operator_index = NoneV,
                                !.current_operator_field = NoneV])

\* lines 168-169 and 236-237: name, with _copy added until it is new
RECURSIVE with_copy(_, _)
with_copy(name, taken) ==
  IF name \in taken THEN with_copy(name \o <<"_", "copy">>, taken) ELSE name

\* lines 164-173
add_entity(ed, entity_name) ==
  LET taken == {ed.entities[i].name : i \in 1..Len(ed.entities)}
      name == with_copy(IF Truthy(entity_name) THEN entity_name.v
                        ELSE <<"Entity", ToString(Len(ed.entities) + 1)>>, taken)
  IN refresh_gui([ed EXCEPT !.entities = Append(@, [name |-> name, components |-> <<>>]),
                            !.current_entity = StrV(name)])

\* lines 190-204
remove_entity(ed) ==
  IF ~Truthy(ed.current_entity) THEN ed
  ELSE IF ~has_entity(ed, ed.current_entity.v) THEN Raise(ed, "KeyError")
  ELSE
  LET entities == Pop(ed.entities, entity_index(ed, ed.current_entity.v))
      e1 == [ed EXCEPT !.entities = entities,
                       !.current_entity = IF entities = <<>> THEN NoneV
                                          ELSE StrV(entities[1].name)]
      e2 == IF entities # <<>> THEN on_entity_select(e1, entities[1].name)
            ELSE [e1 EXCEPT !.current_component = NoneV,
                            !.current_operator_index = NoneV,
                            !.current_operator_field = NoneV]
  IN IF e2.raised # "" THEN e2 ELSE refresh_gui(e2)

\* lines 230-245
add_component(ed, component_name) ==
  IF ~Truthy(ed.current_entity) THEN ed
  ELSE IF ~has_entity(ed, ed.current_entity.v) THEN Raise(ed, "KeyError")
  ELSE
  LET entity == ed.current_entity.v
      components == components_of(ed, entity)
      name == with_copy(IF Truthy(component_name) THEN component_name.v
                        ELSE <<"Component", ToString(Len(components) + 1)>>,
                        {components[i] : i \in 1..Len(components)})
      e1 == [with_components(ed, entity, Append(components, name))
               EXCEPT !.variables = Put(@, name, EmptyDict),
                      !.systems_definitions = Put(@, name, <<>>),
                      !.current_component = StrV(name)]
  IN on_entity_select(e1, entity)

\* lines 269-285
remove_component(ed) ==
  IF ~Truthy(ed.current_component) THEN ed
  ELSE IF ~Truthy(ed.current_entity) \/ ~has_entity(ed, ed.current_entity.v)
    THEN Raise(ed, "KeyError")
  ELSE
  LET component == ed.current_component.v
      entity == ed.current_entity.v
      components == components_of(ed, entity)
  IN IF ~contains(components, component) THEN Raise(ed, "ValueError")
     ELSE
     LET at == SeqMin({i \in 1..Len(components) : components[i] = component})
         remaining_components == Pop(components, at)
         e1 == [with_components(ed, entity, remaining_components)
                  EXCEPT !.variables = Del(@, component),
                         !.systems_definitions = Del(@, component),
                         !.current_component =
                            IF remaining_components = <<>> THEN NoneV
                            ELSE StrV(remaining_components[1])]
     IN refresh_gui(e1)

\* lines 356-360 and 1319-1323: the ids of all listed
used_op_ids(ed) ==
  UNION {{ed.systems_definitions[c][i][kId].v : i \in 1..Len(ed.systems_definitions[c])} :
           c \in DOMAIN ed.systems_definitions}

\* lines 346-350 and 1310-1314: the first entity that has the component
entity_of(ed, component) ==
  LET holders == {i \in 1..Len(ed.entities) : contains(ed.entities[i].components, component)}
  IN IF holders = {} THEN NoneV ELSE StrV(ed.entities[SeqMin(holders)].name)

\* unique_op_id that takes the id as it is
unique_op_id_as_given(new_op_id, used) == new_op_id

\* lines 362-366 and 1325-1329
unique_op_id(new_op_id, used) ==
  LET suffixed(suffix) == new_op_id \o <<"_", ToString(suffix)>>
      free == {suffix \in 1..(Cardinality(used) + 1) : suffixed(suffix) \notin used}
  IN IF new_op_id \in used THEN suffixed(SeqMin(free)) ELSE new_op_id

\* lines 338-380
add_operator(ed, new_name) ==
  LET component == ed.current_component IN
  IF ~Truthy(component) THEN ed
  ELSE IF component.v \notin DOMAIN ed.systems_definitions THEN Raise(ed, "KeyError")
  ELSE
  LET listed == ed.systems_definitions[component.v]
      name == IF Truthy(new_name) THEN new_name.v
              ELSE <<"operator", "_", ToString(Len(listed) + 1)>>
      entity_name == entity_of(ed, component.v)
      new_op_id == unique_op_id(name \o <<"_">> \o entity_name.v \o <<"_">> \o component.v,
                                used_op_ids(ed))
  IN IF entity_name = NoneV THEN ed
     ELSE refresh_gui(
            [ed EXCEPT !.systems_definitions[component.v] =
                          Append(@, (kId :> StrV(new_op_id)) @@ (kFormula :> StrV(<<>>))),
                       !.current_operator_index = IntV(Len(listed))])

\* lines 382-396
remove_operator(ed) ==
  LET component == ed.current_component
      index == ed.current_operator_index
      listed == IF Truthy(component)
                     THEN Get(ed.systems_definitions, component.v, <<>>) ELSE <<>>
  IN IF ~Truthy(component) \/ index = NoneV \/ index.v >= Len(listed) THEN ed
     ELSE
     LET e1 == [ed EXCEPT !.systems_definitions[component.v] = Pop(@, index.v + 1)]
         e2 == IF Len(listed) = 1 THEN add_operator(e1, NoneV) ELSE e1
     IN IF e2.raised # "" THEN e2
        ELSE refresh_gui([e2 EXCEPT !.current_operator_index = IntV(0)])

\* lines 398-422
move_operator(ed, up) ==
  LET component == ed.current_component
      index == ed.current_operator_index
  IN IF ~Truthy(component) \/ index = NoneV THEN ed
     ELSE IF component.v \notin DOMAIN ed.systems_definitions THEN Raise(ed, "KeyError")
     ELSE
     LET listed == ed.systems_definitions[component.v] IN
     IF up /\ index.v > 0
       THEN IF index.v >= Len(listed) THEN Raise(ed, "IndexError")
            ELSE refresh_gui(
                   [ed EXCEPT !.systems_definitions[component.v] =
                                 Swapped(@, index.v + 1, index.v),
                              !.current_operator_index = IntV(index.v - 1)])
     ELSE IF ~up /\ index.v < Len(listed) - 1
       THEN refresh_gui(
              [ed EXCEPT !.systems_definitions[component.v] =
                            Swapped(@, index.v + 1, index.v + 2),
                         !.current_operator_index = IntV(index.v + 1)])
     ELSE refresh_gui(ed)

\* lines 1303-1336; str(None) is 'None'
rename_operator(ed, new_name) ==
  LET component == ed.current_component
      index == ed.current_operator_index
  IN IF ~Truthy(component) \/ index = NoneV THEN ed
     ELSE IF component.v \notin DOMAIN ed.systems_definitions THEN Raise(ed, "KeyError")
     ELSE IF index.v >= Len(ed.systems_definitions[component.v])
       THEN Raise(ed, "IndexError")
     ELSE
     LET entity_name == entity_of(ed, component.v)
         entity_text == IF entity_name = NoneV THEN <<"None">> ELSE entity_name.v
         new_op_id == unique_op_id(new_name \o <<"_">> \o entity_text \o <<"_">> \o component.v,
                                   used_op_ids(ed))
     IN refresh_gui([ed EXCEPT !.systems_definitions[component.v][index.v + 1][kId] =
                                  StrV(new_op_id)])

\* lines 803-807: the name, or the name with the first suffix that is new
unique_component_name(original_component_name, components) ==
  LET suffixed(suffix) == original_component_name \o <<"_", ToString(suffix)>>
      free == {suffix \in 1..(Len(components) + 1) : ~contains(components, suffixed(suffix))}
  IN IF contains(components, original_component_name) THEN suffixed(SeqMin(free))
     ELSE original_component_name

\* lines 774-820, on a file that holds the dictionary component_data; every
\* exception is raised again as a ValueError
upload_component(ed, component_data) ==
  IF ~Truthy(ed.current_entity) \/ ~has_entity(ed, ed.current_entity.v)
    THEN Raise(ed, "ValueError")
  ELSE
  LET entity == ed.current_entity.v
      components == components_of(ed, entity)
      component_name == unique_component_name(component_data.component, components)
      e1 == [with_components(ed, entity, Append(components, component_name))
               EXCEPT !.variables = Put(@, component_name, component_data.variables),
                      !.systems_definitions =
                         Put(@, component_name, component_data.systems_definitions)]
  IN IF refresh_gui(e1).raised # "" THEN Raise(e1, "ValueError") ELSE e1

\* line 83-122: ECSEditor() on no simulation_data
NewEditor ==
  [entities |-> <<>>, variables |-> EmptyDict, systems_definitions |-> EmptyDict,
   current_entity |-> NoneV, current_component |-> NoneV,
   current_operator_index |-> NoneV, current_operator_field |-> NoneV,
   calls |-> 0, call |-> "__init__", raised |-> ""]

\* the arguments the handlers are called with
EntityNames    == <<NoneV>>
ComponentNames == <<NoneV>>
OperatorNames  == <<NoneV, StrV(<<"op">>)>>
\* the dictionary of an uploaded component file
UploadedComponent ==
  [component |-> <<"C">>, variables |-> (<<"x">> :> IntV(0)),
   systems_definitions |-> <<(kId :> StrV(<<"up">>)) @@ (kFormula :> StrV(<<>>))>>]

InitEditor ==
  /\ editor = NewEditor
  /\ end_time = NoneV
  /\ config = EmptyDict
  /\ pc = "editor"
  /\ operators = <<>>
  /\ state = EmptyDict
  /\ heap = <<>>
  /\ history = <<>>
  /\ current_operator_id = NoneV
  /\ max_attempts = 0
  /\ formula_data = EmptyDict
  /\ locals = NoLocals
  /\ entry = NoEntry

\* a call of the handler `name` that leaves the editor `result`
Called(name, result) ==
  /\ pc = "editor"
  /\ editor.calls < MaxCalls
  /\ editor' = [result EXCEPT !.call = name, !.calls = editor.calls + 1]
  /\ UNCHANGED <<end_time, config, pc, operators, state, heap, history,
                 current_operator_id, max_attempts, formula_data, locals, entry>>

\* the editor as a handler finds it
Before == Raise(editor, "")

AddEntity ==
  /\ Len(editor.entities) < MaxEntities
  /\ \E i \in DOMAIN EntityNames : Called("add_entity", add_entity(Before, EntityNames[i]))

RemoveEntity == Called("remove_entity", remove_entity(Before))

OnEntitySelect ==
  \E i \in 1..Len(editor.entities) :
    Called("on_entity_select", on_entity_select(Before, editor.entities[i].name))

AddComponent ==
  /\ Cardinality(DOMAIN editor.variables) < MaxComponents
  /\ \E i \in DOMAIN ComponentNames :
       Called("add_component", add_component(Before, ComponentNames[i]))

RemoveComponent == Called("remove_component", remove_component(Before))

\* the component list of the page shows the components of current_entity
OnComponentSelect ==
  /\ Truthy(editor.current_entity)
  /\ \E i \in 1..Len(components_of(editor, editor.current_entity.v)) :
       Called("on_component_select",
              on_component_select(Before, components_of(editor, editor.current_entity.v)[i]))

UploadComponent ==
  /\ Cardinality(DOMAIN editor.variables) < MaxComponents
  /\ Called("upload_component", upload_component(Before, UploadedComponent))

\* the operators of current_component, as the page lists them
ListedOperators ==
  IF Truthy(editor.current_component)
    THEN Get(editor.systems_definitions, editor.current_component.v, <<>>)
    ELSE <<>>

AddOperator ==
  /\ Len(ListedOperators) < MaxOperators
  /\ Called("add_operator", add_operator(Before, NoneV))

RemoveOperator == Called("remove_operator", remove_operator(Before))

MoveOperator == \E up \in BOOLEAN : Called("move_operator", move_operator(Before, up))

RenameOperator ==
  \E i \in DOMAIN OperatorNames :
    /\ OperatorNames[i] # NoneV
    /\ Called("rename_operator", rename_operator(Before, OperatorNames[i].v))

OnOperatorSelect ==
  \E i \in 1..Len(ListedOperators) :
    Called("on_operator_select", on_operator_select(Before, ListedOperators[i][kId].v))

NextEditor ==
  \/ AddEntity \/ RemoveEntity \/ OnEntitySelect
  \/ AddComponent \/ RemoveComponent \/ OnComponentSelect \/ UploadComponent
  \/ AddOperator \/ RemoveOperator \/ MoveOperator \/ RenameOperator
  \/ OnOperatorSelect

SpecEditor == InitEditor /\ [][NextEditor]_vars

(***************************************************************************)
(* Properties of the driver and of run_formula, checked under Spec          *)
(***************************************************************************)
\* the step the driver has just yielded
LastStep == history[Len(history)]

\* what a value holds, dicts followed d levels down
RECURSIVE Resolve(_, _, _, _)
Resolve(v, st, hp, d) ==
  IF v.t = "dict" /\ "literal" \notin DOMAIN v /\ d > 0
    THEN LET dict == IF v.v = 0 THEN st ELSE hp[v.v]
         IN [k \in DOMAIN dict |-> Resolve(dict[k], st, hp, d - 1)]
    ELSE v

\* the contents of a snapshot, nested dicts included; the entry 'state', which
\* refers to the state dict itself, is left aside
Contents(snapshot, st, hp) ==
  [k \in (DOMAIN snapshot) \ {kState} |-> Resolve(snapshot[k], st, hp, 2)]

\* C1: no step of the driver changes a history entry or the contents of the
\* state snapshot of a step already yielded, nested dicts included; the
\* history only grows.
C1_SnapshotsUntouched ==
  [][\A i \in 1..Len(history) :
        /\ i <= Len(history')
        /\ history'[i] = history[i]
        /\ Contents(history'[i].state, state', heap')
             = Contents(history[i].state, state, heap)]_vars

\* the right-hand side of the current operator's formula, and what it
\* evaluates to in the state run_formula was entered with
DefaultRhs == Strip(SplitRest(formula_data[kFormula].v))
DefaultValue == eval(DefaultRhs, entry.state)

\* the non-LM formula of the current operator raises: its right-hand side
\* does not evaluate, or its subscript assignment indexes a value that is no dict
DirectFails ==
  LET formula == formula_data[kFormula].v
      lhs == Strip(SplitHead(formula))
  IN \/ ~HasEq(formula)
     \/ ~DefaultValue.ok
     \/ /\ Find(lhs, "['", 1) # 0
        /\ ~assign_subscript([state |-> entry.state, heap |-> entry.heap],
                             FindAllKeys(lhs, 1), 1, 0, DefaultValue.val).ok

\* C2 (as claimed): run_formula never returns an empty output list.
C2_OutputNeverEmpty == pc = "yielded" => LastStep.output # <<>>

\* C2 (amended): run_formula returns an empty output list exactly when the
\* operator is evaluated directly, its formula is not blank, and the
\* evaluation or the assignment raises; the sampler path and blank always
\* give a line.
C2_EmptyOnlyWhenDirectEvaluationFails ==
  pc = "yielded" =>
    /\ (LastStep.output = <<>>) <=>
         (locals.use_default /\ formula_data[kFormula].v # fBlank /\ DirectFails)
    /\ ~locals.use_default => LastStep.output # <<>>

\* a direct evaluation that failed has been yielded with no output line
C2_Witness ==
  /\ pc = "yielded"
  /\ locals.use_default
  /\ LastStep.output = <<>>
  /\ Len(history) > 1

\* the type the claim expects of a sampled value, given the default's value
KindMatches(default_value, value) ==
  IF default_value.t \in {"int", "float"} THEN value.t \in {"int", "float"}
  ELSE value.t = default_value.t

\* C3: a value the sampler path has written has the type of the default
\* right-hand side's value (any int or float for a numeric default, else
\* exactly its kind), and the line emitted begins with the default LHS.
C3_SampledValueHasExpectedType ==
  (pc = "yielded" /\ locals.accepted) =>
    /\ DefaultValue.ok
    /\ KindMatches(DefaultValue.val, locals.value)
    /\ state[locals.default_assignment] = locals.value
    /\ StartsWith(LastStep.output[1], locals.default_assignment)

\* C4: with a Boolean default only a Boolean candidate is accepted, and with
\* an int or float default no Boolean candidate is accepted.
C4_BooleansAndNumbersKeptApart ==
  (pc = "yielded" /\ locals.accepted /\ DefaultValue.ok) =>
    /\ (DefaultValue.val.t = "bool") => (locals.value.t = "bool")
    /\ (DefaultValue.val.t \in {"int", "float"}) => (locals.value.t # "bool")

\* C5: an accepted candidate assigns exactly the default LHS.
C5_AcceptedCandidateAssignsDefaultLhs ==
  (pc = "yielded" /\ locals.accepted) =>
    Strip(SplitHead(locals.last_generated_text)) = locals.default_assignment

\* C6: when every candidate was rejected, every state key but 'state' holds
\* the value it had when run_formula was called, and the output is the one
\* line LHS = <that value> # sampled.
C6_ExhaustionLeavesState ==
  (pc = "yielded" /\ ~locals.use_default /\ ~locals.accepted) =>
    /\ \A k \in (DOMAIN entry.state) \ {kState} :
         k \in DOMAIN state /\ state[k] = entry.state[k]
    /\ LastStep.output =
         <<exhausted_line(entry.state, locals.default_assignment, TRUE)>>

\* the ids of the compiled operators
Ids == {operators[i][kId] : i \in 1..Len(operators)}

\* C8: the next of every compiled operator that is no conditional is the id
\* of a compiled operator, and the driver's current operator id always is.
C8_NextResolves ==
  pc \notin {"config", "compiled"} =>
    /\ \A i \in 1..Len(operators) :
         ~is_conditional(operators[i][kNext]) => operators[i][kNext] \in Ids
    /\ current_operator_id \in Ids

\* C10: the operator of the step after one whose next is X if cond else Y is
\* X when cond holds in the state the step left, else Y; any other next is
\* the following operator id as it stands.
C10_NextFollowsCondition ==
  \A i \in 1..(Len(history) - 1) :
    LET next == lookup(operators, history[i].operator_id)[kNext] IN
    IF next = StrV(CondNext)
      THEN history[i + 1].operator_id =
             (IF history[i].state[<<"world", "_", "flag">>] = BoolV(TRUE)
                THEN StrV(<<"C">>) ELSE StrV(<<"B">>))
      ELSE history[i + 1].operator_id = next

\* a conditional next has been followed to C, and one to B
C10_Witness ==
  \E i, j \in 1..(Len(history) - 1) :
    /\ lookup(operators, history[i].operator_id)[kNext] = StrV(CondNext)
    /\ history[i + 1].operator_id = StrV(<<"C">>)
    /\ lookup(operators, history[j].operator_id)[kNext] = StrV(CondNext)
    /\ history[j + 1].operator_id = StrV(<<"B">>)

(***************************************************************************)
(* Properties of generate_operators, checked under SpecGen                  *)
(***************************************************************************)
\* C7: the compiled operators have pairwise distinct ids.
C7_IdsPairwiseDistinct ==
  pc = "compiled" =>
    \A i, j \in 1..Len(operators) :
      i # j => operators[i][kId] # operators[j][kId]

\* the templates of a configuration in the order their operators are compiled
RECURSIVE TemplatesFrom(_, _, _)
TemplatesFrom(cfg, n, j) ==
  IF n > Len(cfg.entities) THEN <<>>
  ELSE IF j > Len(cfg.entities[n].variables) THEN TemplatesFrom(cfg, n + 1, 1)
  ELSE (IF cfg.entities[n].variables[j] \in DOMAIN cfg.systems_definitions
          THEN cfg.systems_definitions[cfg.entities[n].variables[j]]
          ELSE <<>>)
         \o TemplatesFrom(cfg, n, j + 1)

\* the id of the operator after operator i, the first one after the last
FollowingId(i) == operators[(i % Len(operators)) + 1][kId]

\* C9 (as claimed): an operator whose template has no next points at the
\* operator after it, the last one at the first, a single one at itself; a
\* next of the template is kept as it is.
C9_TemplateNextOrRing ==
  pc = "compiled" =>
    LET templates == TemplatesFrom(config, 1, 1) IN
    /\ Len(operators) = Len(templates)
    /\ \A i \in 1..Len(operators) :
         operators[i][kNext] =
           (IF kNext \in DOMAIN templates[i] THEN templates[i][kNext]
            ELSE FollowingId(i))

\* C9 (amended): a next of the template is kept as it is; without one, a
\* next of the defaults is taken; an operator that got neither points at the
\* operator after it, the last one at the first, a single one at itself.
C9_TemplateOrDefaultNextOrRing ==
  pc = "compiled" =>
    LET templates == TemplatesFrom(config, 1, 1) IN
    /\ Len(operators) = Len(templates)
    /\ \A i \in 1..Len(operators) :
         operators[i][kNext] =
           (IF kNext \in DOMAIN templates[i] THEN templates[i][kNext]
            ELSE IF kNext \in DOMAIN config.default_values
              THEN config.default_values[kNext]
            ELSE FollowingId(i))

\* several operators compiled without a next in the defaults: the last one,
\* whose template has no next, points at the first, and a conditional next
\* of a template is kept
C9_Witness ==
  /\ pc = "compiled"
  /\ Len(operators) > 2
  /\ kNext \notin DOMAIN config.default_values
  /\ kNext \notin DOMAIN TemplatesFrom(config, 1, 1)[Len(operators)]
  /\ operators[Len(operators)][kNext] = operators[1][kId]
  /\ \E i \in 1..Len(operators) : operators[i][kNext] = StrV(CondNext)

\* the templates in the order their operators are compiled, each with its
\* entity, its component and its 0-based position among the component's
\* templates
RECURSIVE SlotsFrom(_, _, _)
SlotsFrom(cfg, n, j) ==
  IF n > Len(cfg.entities) THEN <<>>
  ELSE IF j > Len(cfg.entities[n].variables) THEN SlotsFrom(cfg, n + 1, 1)
  ELSE LET variable == cfg.entities[n].variables[j]
           templates == IF variable \in DOMAIN cfg.systems_definitions
                          THEN cfg.systems_definitions[variable] ELSE <<>>
       IN [i \in 1..Len(templates) |->
             [entity |-> cfg.entities[n].name, variable |-> variable,
              i |-> i - 1, template |-> templates[i]]]
            \o SlotsFrom(cfg, n, j + 1)

\* operator_<n>_<entity>_<component>
NumberedId(n, entity, variable) ==
  StrV(<<"operator", "_", ToString(n), "_">> \o entity \o <<"_">> \o variable)

\* C32: the first template of each (entity, component) pair gets the id
\* operator_1_<entity>_<component>; a later template at 0-based position i
\* gets its own id when it has one and operator_<i+1>_<entity>_<component>
\* otherwise.
C32_IdsByPosition ==
  pc = "compiled" =>
    LET slots == SlotsFrom(config, 1, 1) IN
    /\ Len(operators) = Len(slots)
    /\ \A n \in 1..Len(operators) :
         operators[n][kId] =
           (IF slots[n].i = 0 \/ kId \notin DOMAIN slots[n].template
              THEN NumberedId(slots[n].i + 1, slots[n].entity, slots[n].variable)
              ELSE slots[n].template[kId])

\* two values of a configuration are the same
SameValue(a, b) == a.t = b.t /\ DOMAIN a = DOMAIN b /\ a.v = b.v

\* C33: for every compiled operator and every key k of the defaults,
\* operator[k] is the template's value when the template has k and
\* defaults[k] when it has not; for query and use_lm as for every other key.
C33_DefaultsFillMissingKeys ==
  pc = "compiled" =>
    LET slots == SlotsFrom(config, 1, 1) IN
    /\ Len(operators) = Len(slots)
    /\ \A n \in 1..Len(operators) : \A k \in DOMAIN config.default_values :
         /\ k \in DOMAIN operators[n]
         /\ SameValue(operators[n][k],
                      IF k \in DOMAIN slots[n].template THEN slots[n].template[k]
                      ELSE config.default_values[k])

(***************************************************************************)
(* Scenarios and error handling of the driver, checked under Spec           *)
(***************************************************************************)
\* C11: in the Clock configuration the history after n steps holds n steps,
\* step i has the one output line world_time = i and a snapshot with
\* world_time = i, and the state's world_time is n.
C11_ClockCounts ==
  (config = ClockConfig /\ pc \in {"ready", "yielded"}) =>
    /\ state[kWorldTime] = IntV(Len(history))
    /\ \A i \in 1..Len(history) :
         /\ history[i].output = <<kWorldTime \o Assign \o <<ToString(i)>>>>
         /\ history[i].state[kWorldTime] = IntV(i)
         /\ history[i].operator_id = operators[1][kId]

\* the Clock configuration has run for MaxSteps steps
C11_Witness ==
  /\ config = ClockConfig
  /\ pc = "yielded"
  /\ Len(history) = MaxSteps
  /\ state[kWorldTime] = IntV(MaxSteps)

\* the value at v[keys[i]]...[keys[n]], dicts read from state st and heap hp;
\* NoneV when a key is missing or a value on the way is no dict
RECURSIVE Follow(_, _, _, _, _)
Follow(v, keys, i, st, hp) ==
  IF i > Len(keys) THEN v
  ELSE IF v.t # "dict" THEN NoneV
  ELSE LET dict == IF v.v = 0 THEN st ELSE hp[v.v] IN
       IF keys[i] \in DOMAIN dict THEN Follow(dict[keys[i]], keys, i + 1, st, hp)
       ELSE NoneV

\* the formula of the current operator assigns to name['k1']...['kn']
SubscriptLhs == Find(Strip(SplitHead(formula_data[kFormula].v)), "['", 1) # 0

\* the name before the first subscript of the current operator's LHS
SubscriptName ==
  LET lhs == Strip(SplitHead(formula_data[kFormula].v))
  IN SubSeq(lhs, 1, Find(lhs, "['", 1) - 1)

\* C12: after a non-LM operator name['k1']...['kn'] = RHS has run, the value
\* is at state[name][k1]...[kn], and no top-level key of the state other than
\* name is created, replaced or removed.
C12_SubscriptStoresUnderName ==
  (pc = "yielded" /\ locals.use_default /\ SubscriptLhs /\ LastStep.output # <<>>) =>
    /\ SubscriptName \in DOMAIN state
    /\ Follow(state[SubscriptName],
              FindAllKeys(Strip(SplitHead(formula_data[kFormula].v)), 1), 1,
              state, heap) = DefaultValue.val
    /\ \A k \in ((DOMAIN state) \cup (DOMAIN entry.state)) \ {SubscriptName, kState} :
         k \in DOMAIN state /\ k \in DOMAIN entry.state /\ state[k] = entry.state[k]

(***************************************************************************)
(* Properties of query_history and read_context, checked under SpecContext  *)
(***************************************************************************)
\* the operator has a query, and the filter read_context hands to query_history
HasQuery == formula_data[kQuery] # NoneV
CurrentFilter == expanded_query(formula_data[kQuery].v, state)
CurrentMax == state[kMaxContextLength].v

\* state[k] == v, or state[k] in v for a list v, with `absent` standing for
\* state[k] when the snapshot has no key k
ItemMatches(st, k, v, absent) ==
  LET held == IF k \in DOMAIN st THEN st[k] ELSE absent IN
  IF v.t = "list" THEN \E n \in 1..Len(v.v) : PyEq(held, v.v[n])
  ELSE PyEq(held, v)

\* nothing equals this value
Missing == [t |-> "missing", v |-> 0]

\* the steps of the history whose snapshot matches every item of the
\* current filter
MatchingSteps(absent) ==
  LET Test(step) ==
        \A k \in DOMAIN CurrentFilter :
          ItemMatches(step.state, k, CurrentFilter[k], absent)
  IN SelectSeq(history, Test)

\* C13 (as claimed): query_history returns the lines of exactly the steps
\* whose snapshot has state[k] == v (state[k] in v for a list) for every
\* item of the filter, all their lines, in history order.
C13_IncludesIffStateMatches ==
  HasQuery =>
    query_history(history, CurrentFilter)
      = query_history(MatchingSteps(Missing), EmptyDict)

\* C13 (amended): the same with state.get(k) in the place of state[k]: a key
\* the snapshot lacks reads as None.
C13_IncludesIffStateGetMatches ==
  HasQuery =>
    query_history(history, CurrentFilter)
      = query_history(MatchingSteps(NoneV), EmptyDict)

\* a history with a step that matches for_summary == 'Yes' and one that does
\* not, both with output, has been queried
C13_Witness ==
  /\ pc = "context read"
  /\ formula_data[kQuery] = QueryV(kForSummary :> Yes)
  /\ Len(history) = 2
  /\ history[1].state = ((kAll :> BoolV(TRUE)) @@ (kForSummary :> No))
  /\ history[2].state = ((kAll :> BoolV(TRUE)) @@ (kForSummary :> Yes))
  /\ history[1].output = <<LineBC, LineA>>
  /\ history[2].output = <<LineA>>
  /\ CurrentMax = MaxContextChars
  /\ locals.context = LineA \o <<"\n">>

\* the output lines of a history, in order
RECURSIVE LinesOf(_)
LinesOf(h) ==
  IF h = <<>> THEN <<>>
  ELSE LinesOf(SubSeq(h, 1, Len(h) - 1)) \o h[Len(h)].output

\* lines with one newline between each two
RECURSIVE Joined(_)
Joined(lines) ==
  IF lines = <<>> THEN <<>>
  ELSE IF Len(lines) = 1 THEN lines[1]
  ELSE Joined(SubSeq(lines, 1, Len(lines) - 1)) \o <<"\n">> \o lines[Len(lines)]

\* a text without the newlines it ends with
WithoutTrailingNewlines(text) ==
  LET ends == {n \in 0..Len(text) : n = 0 \/ text[n] # "\n"}
  IN SubSeq(text, 1, CHOOSE n \in ends : \A m \in ends : m <= n)

\* C14: on a history whose snapshots all have all == True, the query
\* all=True gives the output lines of all steps in order with one newline
\* between each two, ending with exactly one newline.
C14_AllLinesNewlineJoined ==
  (HasQuery /\ CurrentFilter = (kAll :> BoolV(TRUE))
     /\ \A i \in 1..Len(history) : history[i].state[kAll] = BoolV(TRUE)) =>
    query_history(history, CurrentFilter)
      = WithoutTrailingNewlines(Joined(LinesOf(history))) \o <<"\n">>

\* two steps with all == True, the second one a blank operator's, queried
\* with all=True
C14_Witness ==
  /\ pc = "context read"
  /\ formula_data[kQuery] = QueryV(kAll :> BoolV(TRUE))
  /\ Len(history) = 2
  /\ \A i \in 1..2 : history[i].state[kAll] = BoolV(TRUE)
  /\ history[1].output = <<LineBC, LineA>>
  /\ history[2].output = <<LineBlank>>
  /\ CurrentMax = MaxContextChars

\* C15: on an empty history query_history returns the empty string.
C15_EmptyHistoryEmptyString ==
  (HasQuery /\ history = <<>>) => query_history(history, CurrentFilter) = <<>>

\* C16: read_context returns the queried context as it is when it has at
\* most max_context_length characters, else the notice followed by exactly
\* its last max_context_length characters.
C16_NoticeAndLastCharacters ==
  (pc = "context read" /\ HasQuery) =>
    LET context == query_history(history, CurrentFilter) IN
    IF Len(context) <= CurrentMax
      THEN locals.context = context
      ELSE locals.context =
             TruncationNotice
               \o SubSeq(context, Len(context) - CurrentMax + 1, Len(context))

\* C17: truncating again a context read_context has truncated gives the
\* same text.
C17_TruncationIdempotent ==
  (pc = "context read" /\ HasQuery
     /\ Len(query_history(history, CurrentFilter)) > CurrentMax) =>
    tail_truncation(locals.context, CurrentMax) = locals.context

(***************************************************************************)
(* Failures inside a step, checked under Spec                               *)
(***************************************************************************)
\* the right-hand side of the current non-LM formula does not evaluate
RhsFails ==
  /\ locals.use_default
  /\ HasEq(formula_data[kFormula].v)
  /\ ~DefaultValue.ok

\* two values are the same, dicts compared by what they hold d levels down
RECURSIVE SameAs(_, _, _, _, _)
SameAs(a, b, hpa, hpb, d) ==
  /\ a.t = b.t
  /\ DOMAIN a = DOMAIN b
  /\ IF a.t = "dict" /\ "literal" \notin DOMAIN a /\ "literal" \notin DOMAIN b
          /\ a.v # 0 /\ d > 0
       THEN /\ a.v \in DOMAIN hpa /\ b.v \in DOMAIN hpb
            /\ DOMAIN hpa[a.v] = DOMAIN hpb[b.v]
            /\ \A k \in DOMAIN hpa[a.v] :
                 SameAs(hpa[a.v][k], hpb[b.v][k], hpa, hpb, d - 1)
       ELSE a.v = b.v

\* the top-level name the current formula assigns to holds the same in the
\* state st as when the formula's evaluation began
LhsName ==
  IF SubscriptLhs THEN SubscriptName ELSE Strip(SplitHead(formula_data[kFormula].v))
LhsAsBefore(st) ==
  SameAs(Get(st, LhsName, Missing), Get(entry.state, LhsName, Missing),
         heap, entry.heap, 2)

\* C18: when the right-hand side of a non-LM formula fails to evaluate, the
\* step has no output line, the LHS holds what it held before, the step is
\* appended to the history, and the driver goes on to the operator named by
\* next.
C18_FailedEvaluationLeavesLhs ==
  /\ [](pc = "yielded" /\ RhsFails =>
          /\ LastStep.output = <<>>
          /\ LastStep.operator_id = current_operator_id
          /\ LhsAsBefore(state)
          /\ LhsAsBefore(LastStep.state))
  /\ [][(pc = "yielded" /\ RhsFails /\ ~is_conditional(formula_data[kNext])) =>
          /\ pc' = "ready"
          /\ current_operator_id' = formula_data[kNext]
          /\ history' = history]_vars

\* C19: when the sampler raises during an attempt of an LM operator, the step
\* ends as any other: it is appended to the history with a line for the
\* operator, and the LHS holds its value of before the operator.
C19_SamplerFailureEndsStep ==
  [][(pc = "sampling" /\ pc' = "sampler raised") =>
        /\ Len(history') = Len(history) + 1
        /\ history'[Len(history')].operator_id = current_operator_id
        /\ history'[Len(history')].output # <<>>
        /\ SameAs(Get(state', locals.default_assignment, Missing),
                  Get(entry.state, locals.default_assignment, Missing),
                  heap', entry.heap, 2)]_vars

\* C20: when an operator has run, either its assignment is done and a line is
\* emitted, or the state is what it was when the formula's evaluation began:
\* no dict created, no key changed.
C20_AllOrNothing ==
  pc = "yielded" =>
    \/ /\ LastStep.output # <<>>
       /\ IF locals.use_default
            THEN formula_data[kFormula].v = fBlank \/ ~DirectFails
            ELSE locals.accepted
    \/ /\ DOMAIN state = DOMAIN entry.state
       /\ \A k \in (DOMAIN state) \ {kState} :
            SameAs(state[k], entry.state[k], heap, entry.heap, 2)
       /\ Len(heap) = Len(entry.heap)

(***************************************************************************)
(* The sampler's calls in run_formula, checked under Spec                   *)
(***************************************************************************)
\* run_formula has been entered in the current step
InRunFormula == pc \in {"sampling", "yielded"}

\* the sampler has been called in the current step
SamplerInvoked == locals.calls # <<>>

UseLm == Get(formula_data, kUseLm, BoolV(FALSE))

\* the value of a use_lm expression against the state run_formula got
UseLmValue == eval(UseLm.v, Put(entry.state, kState, DictV(0)))

IsTrue(val) == val.t = "bool" /\ val.v

\* use_lm is True or an expression with the value True
UseLmTrue ==
  IF UseLm.t = "str" THEN UseLmValue.ok /\ IsTrue(UseLmValue.val)
  ELSE IsTrue(UseLm)

\* use_lm is an expression whose value is a function that gives a true
\* value on the state: len of a state with keys, all and any of its keys
UseLmFunctionTrue ==
  /\ UseLm.t = "str"
  /\ UseLmValue.ok
  /\ UseLmValue.val.t = "builtin_function_or_method"
  /\ \/ UseLmValue.val.v = <<"len">> /\ DOMAIN entry.state # {}
     \/ UseLmValue.val.v \in {<<"all">>, <<"any">>}

HasSuffix(line) ==
  Len(line) >= Len(Sampled) /\ SubSeq(line, Len(line) - Len(Sampled) + 1, Len(line)) = Sampled

\* the sampler is called and the lines are marked exactly when `lm` holds
SampledIff(lm) ==
  InRunFormula =>
    /\ SamplerInvoked <=> lm
    /\ \A i \in 1..Len(locals.output) : HasSuffix(locals.output[i]) <=> lm
    /\ (pc = "yielded" /\ lm) => Len(locals.output) = 1
    /\ ~lm => /\ pc = "yielded"
              /\ locals.attempts = 0
              /\ locals.output \in
                   {direct_evaluation([state |-> Put(entry.state, kState, DictV(0)),
                                       heap |-> entry.heap],
                                      formula_data[kFormula].v, FALSE).output}

\* C23 (as claimed): the sampler is called for an operator iff its use_lm
\* is True or a string expression that evaluates to True; otherwise the
\* formula is evaluated directly and no sampler call is made; the suffix
\* ' # sampled' is on exactly the lines of the LM path.
C23_SamplerIffUseLmTrue == SampledIff(UseLmTrue)

\* C23 (amended): the sampler is called for an operator iff its use_lm is
\* True, a string expression that evaluates to True, or a string expression
\* that evaluates to a function giving a true value on the state; otherwise
\* (a string that evaluates to False or to a number, or fails) the formula
\* is evaluated directly and no sampler call is made; the suffix
\* ' # sampled' is on exactly the lines of the LM path.
C23_SamplerIffUseLmTrueOrFunction == SampledIff(UseLmTrue \/ UseLmFunctionTrue)

\* the operator with use_lm 'world_flag' was evaluated directly at the first
\* step and is sampled now that the flag is set
C23_Witness ==
  /\ pc = "yielded"
  /\ UseLm = StrV(<<"world", "_", "flag">>)
  /\ SamplerInvoked
  /\ HasSuffix(locals.output[1])
  /\ history[1].operator_id = current_operator_id
  /\ Len(history[1].output) = 1
  /\ ~HasSuffix(history[1].output[1])

\* C26: a step of an LM operator (max_attempts >= 1) appends exactly one
\* output line to the history, whether a candidate was accepted at the
\* first attempt, at a later one up to the last, or none was.
C26_OneLinePerLmStep ==
  (pc = "yielded" /\ ~locals.use_default /\ max_attempts >= 1) =>
    /\ LastStep.output = locals.output
    /\ Len(LastStep.output) = 1
    /\ locals.accepted <=> locals.attempts < max_attempts

\* a candidate accepted at the last permitted attempt, after a step in which
\* every attempt failed
C26_Witness ==
  /\ pc = "yielded"
  /\ max_attempts = 2
  /\ Len(history) = 3
  /\ ~locals.use_default /\ locals.accepted /\ locals.attempts = 1
  /\ Len(locals.calls) = 2
  /\ Len(LastStep.output) = 1
  /\ Len(history[2].output) = 1
  /\ HasSuffix(history[2].output[1])
  /\ history[2].state[<<"agent", "_", "x">>] = history[1].state[<<"agent", "_", "x">>]

\* C27: in one run of run_formula on the LM path the sampler is called at
\* most max_attempts times, once per attempt; the accepted candidate is the
\* answer to the last call; and when every candidate is rejected the sampler
\* has been called exactly max_attempts times when the loop ends.
C27_CallsBoundedByMaxAttempts ==
  (InRunFormula /\ ~locals.use_default) =>
    /\ Len(locals.calls) <= max_attempts
    /\ pc = "sampling" => ~locals.accepted /\ Len(locals.calls) = locals.attempts + 1
    /\ (pc = "yielded" /\ locals.accepted) => Len(locals.calls) = locals.attempts + 1
    /\ (pc = "yielded" /\ ~locals.accepted) =>
         locals.attempts = max_attempts /\ Len(locals.calls) = max_attempts

\* every one of two attempts was rejected
C27_Witness ==
  /\ pc = "yielded"
  /\ ~locals.use_default
  /\ ~locals.accepted
  /\ max_attempts = 2
  /\ Len(locals.calls) = 2
  /\ locals.calls[2].prompt # locals.calls[1].prompt

FeedbackMark == "Feedback: You already tried (generated text:"

HasFeedback(text) == \E i \in 1..Len(text) : text[i] = FeedbackMark

\* what prompt p adds to prompt q
AddedTo(q, p) == SubSeq(p, Len(q) + 1, Len(p))

\* the error message is the diagnosis of the candidate: off the pattern when
\* it does not start with the left-hand side, else a failed evaluation or a
\* value of another type than the expected one
Diagnosed(candidate, error_message) ==
  IF ~StartsWith(candidate, locals.default_assignment)
    THEN ContainsText(error_message, locals.default_assignment)
         /\ error_message \notin {evaluation_error_message}
         /\ error_message[1] # "Type mismatch: Expected "
    ELSE \/ error_message = evaluation_error_message
         \/ /\ error_message[1] = "Type mismatch: Expected "
            /\ error_message[2] = locals.expected_type

\* C28: the prompt of the first call of the sampler in a step has no
\* feedback block; the prompt of each later call is the prompt of the call
\* before it followed by a feedback block with the candidate and the
\* diagnosed error of the attempt before it; and no string of the state or
\* of a snapshot has a feedback block.
C28_FeedbackOnlyOnRetries ==
  LET calls == locals.calls
      last == Len(calls)
  IN /\ (InRunFormula /\ calls # <<>>) =>
          /\ ~HasFeedback(calls[1].prompt.v)
          /\ \A n \in 2..last :
               /\ StartsWith(calls[n].prompt.v, calls[n - 1].prompt.v)
               /\ AddedTo(calls[n - 1].prompt.v, calls[n].prompt.v)[2] = FeedbackMark
          /\ (pc = "sampling" /\ last >= 2) =>
               /\ ContainsText(AddedTo(calls[last - 1].prompt.v, calls[last].prompt.v),
                               <<FeedbackMark, " ">> \o locals.last_generated_text)
               /\ ContainsText(AddedTo(calls[last - 1].prompt.v, calls[last].prompt.v),
                               locals.error_message)
               /\ Diagnosed(locals.last_generated_text, locals.error_message)
     /\ \A k \in DOMAIN state : state[k].t = "str" => ~HasFeedback(state[k].v)
     /\ \A i \in 1..Len(history) : \A k \in DOMAIN history[i].state :
          history[i].state[k].t = "str" => ~HasFeedback(history[i].state[k].v)

\* the second call of a step whose operator has a prompt of its own, after a
\* candidate off the pattern
C28_Witness ==
  /\ pc = "sampling"
  /\ Len(locals.calls) = 2
  /\ locals.calls[1].prompt = StrV(BeBrief)
  /\ HasFeedback(locals.calls[2].prompt.v)
  /\ ~StartsWith(locals.last_generated_text, locals.default_assignment)
  /\ state[kPrompt] = StrV(BeBrief)

\* the dict simulation_stream_generator was started with
InitialState == heap[1]

\* C29: the prompt of the first call of the sampler for an LM operator
\* without a prompt field is the value initial_state has under 'prompt',
\* whichever operators ran before; for an operator whose prompt field names
\* a state key it is the value of that key.
C29_DefaultPromptUnlessOwn ==
  (InRunFormula /\ locals.calls # <<>>) =>
    IF kPrompt \notin DOMAIN formula_data
      THEN locals.calls[1].prompt = InitialState[kPrompt]
      ELSE formula_data[kPrompt].v \in DOMAIN entry.state =>
             locals.calls[1].prompt = entry.state[formula_data[kPrompt].v]

\* the steps before the current one
Prior == IF pc = "yielded" THEN SubSeq(history, 1, Len(history) - 1) ELSE history

\* the keys the current operator's properties are written under
PropertyKeys == (DOMAIN formula_data) \ {kId, kFormula, kNext}

\* the steps before the current one that the operator's query selects
PriorMatching ==
  LET filter == expanded_query(formula_data[kQuery].v, entry.state)
      Test(step) == \A k \in DOMAIN filter : ItemMatches(step.state, k, filter[k], NoneV)
  IN SelectSeq(Prior, Test)

\* the lines of the selected steps before the current one, one to a line
PriorContext ==
  IF Truthy(formula_data[kQuery])
    THEN WithoutTrailingNewlines(Joined(LinesOf(PriorMatching))) \o <<"\n">>
    ELSE <<>>

\* C30: what step k left in the state is what step k+1 starts from (but for
\* the keys of its own properties), and the context of every call of the
\* sampler at step k+1 is made of the lines of the steps 1..k the query
\* selects, the line of step k among them and none of step k+1.
C30_StepSeesEarlierStepsOnly ==
  InRunFormula =>
    /\ Prior # <<>> =>
         \A k \in (DOMAIN Prior[Len(Prior)].state) \ PropertyKeys :
           /\ k \in DOMAIN entry.state
           /\ SameAs(entry.state[k], Prior[Len(Prior)].state[k], entry.heap, entry.heap, 2)
    /\ \A n \in 1..Len(locals.calls) :
         locals.calls[n].context =
           PriorContext \o (IF entry.state[kSampleMode] = StrV(<<"full">>) THEN <<>>
                            ELSE locals.default_assignment \o Assign)

\* the third step: its context is the clock's line and the line sampled at
\* the second step, whose value it starts from
C30_Witness ==
  /\ pc = "yielded"
  /\ Len(history) = 3
  /\ Truthy(formula_data[kQuery])
  /\ Len(PriorMatching) = 2
  /\ entry.state[kSampleMode] = StrV(<<"full">>)
  /\ locals.calls[1].context =
       history[1].output[1] \o <<"\n">> \o history[2].output[1] \o <<"\n">>
  /\ history[2].output[1] = <<"agent", "_", "x", " ", "=", " ", "1", " ", "#", " ", "sampled">>
  /\ entry.state[<<"agent", "_", "x">>] = IntV(1)
  /\ history[3].output[1] # history[2].output[1]

(***************************************************************************)
(* world_time over the history, checked under Spec                          *)
(***************************************************************************)
ClockFormula == kWorldTime \o Assign \o kWorldTime \o <<" ", "+", " ", "1">>

WritesWorldTime(operator) == Strip(SplitHead(operator[kFormula].v)) = kWorldTime

IsClock(operator) == operator[kFormula].v = ClockFormula

\* every operator that assigns world_time is world_time = world_time + 1
OnlyClockWritesWorldTime ==
  \A n \in 1..Len(operators) : WritesWorldTime(operators[n]) => IsClock(operators[n])

ClockStep(i) == IsClock(lookup(operators, history[i].operator_id))

WorldTimeAt(i) == history[i].state[kWorldTime].v

\* C24: in a run with a world_time that is written only by the operator
\* world_time = world_time + 1, the world_time of the snapshots never
\* decreases along the history, and the snapshot of each step of that
\* operator has a world_time greater than that of every earlier snapshot.
C24_WorldTimeMonotonic ==
  (OnlyClockWritesWorldTime /\ history # <<>> /\ kWorldTime \in DOMAIN history[1].state) =>
    \A i, j \in 1..Len(history) :
      i < j => /\ kWorldTime \in DOMAIN history[j].state
               /\ history[j].state[kWorldTime].t = "int"
               /\ WorldTimeAt(i) <= WorldTimeAt(j)
               /\ ClockStep(j) => WorldTimeAt(i) < WorldTimeAt(j)

\* the clock has run twice with two sampled steps in between
C24_Witness ==
  /\ OnlyClockWritesWorldTime
  /\ Len(history) = 4
  /\ ClockStep(1) /\ ~ClockStep(2) /\ ~ClockStep(3) /\ ClockStep(4)
  /\ HasSuffix(history[2].output[1])
  /\ WorldTimeAt(1) = 1 /\ WorldTimeAt(3) = 1 /\ WorldTimeAt(4) = 2

(***************************************************************************)
(* The operator's properties in the state, checked under Spec               *)
(***************************************************************************)
\* the value is what the current operator has under k
HoldsProperty(st, k) ==
  k \in DOMAIN st /\ SameAs(st[k], formula_data[k], heap, heap, 2)

\* id, formula and next are no keys of the state or of a snapshot
NoIdFormulaNext ==
  /\ (DOMAIN state) \cap {kId, kFormula, kNext} = {}
  /\ \A i \in 1..Len(history) : (DOMAIN history[i].state) \cap {kId, kFormula, kNext} = {}

\* C31 (as claimed): the snapshot of a step holds state[k] == operator[k]
\* for every field k of the step's operator but id, formula and next, and
\* id, formula and next are never written into the state.
C31_SnapshotHoldsProperties ==
  /\ pc = "yielded" => \A k \in PropertyKeys : HoldsProperty(LastStep.state, k)
  /\ NoIdFormulaNext

\* C31 (amended): the state run_formula is called with holds
\* state[k] == operator[k] for every field k of the operator but id, formula
\* and next, and so does the step's snapshot for every such k that is not
\* the name the step's formula assigns; id, formula and next are never
\* written into the state.
C31_PropertiesCopiedBeforeRun ==
  /\ InRunFormula => \A k \in PropertyKeys : HoldsProperty(entry.state, k)
  /\ pc = "yielded" =>
       \A k \in PropertyKeys \ {LhsName} : HoldsProperty(LastStep.state, k)
  /\ NoIdFormulaNext

\* the step of an operator with a prompt and a use_lm of its own, after a
\* step of an operator marked for the summary
C31_Witness ==
  /\ pc = "yielded"
  /\ Len(history) = 2
  /\ {kPrompt, kUseLm, kQuery} \subseteq PropertyKeys
  /\ formula_data[kPrompt] = StrV(BeBrief)
  /\ LastStep.state[kPrompt] = StrV(BeBrief)
  /\ history[1].state[kPrompt] = StrV(<<>>)
  /\ LastStep.state[kForSummary] = Yes

(***************************************************************************)
(* The end of generate_simulation_stream, checked under SpecStream          *)
(***************************************************************************)
\* the snapshot of step i has a world_time of end_time or more
AtEnd(i) ==
  /\ kWorldTime \in DOMAIN history[i].state
  /\ history[i].state[kWorldTime].t \in {"int", "bool"}
  /\ NumOf(history[i].state[kWorldTime]) >= end_time.v

\* the stream is returned at the first step at end_time and at no other
ReturnsAtFirstEnd ==
  end_time # NoneV =>
    /\ \A i \in 1..(Len(history) - 1) : ~AtEnd(i)
    /\ pc = "returned" => AtEnd(Len(history))
    /\ pc \in {"ready", "sampling", "sampler raised"} =>
         \A i \in 1..Len(history) : ~AtEnd(i)

\* the steps of the clock in the stream so far
ClockSteps == {i \in 1..Len(history) : ClockStep(i)}

\* a step has been yielded, and the clock has run as often as it takes to
\* bring the world_time of initial_state to end_time
ClockRanOftenEnough ==
  /\ end_time # NoneV
  /\ pc = "yielded"
  /\ kWorldTime \in DOMAIN InitialState
  /\ Cardinality(ClockSteps) >= end_time.v - InitialState[kWorldTime].v

RingOfDistinctIds ==
  /\ operators # <<>>
  /\ kNext \notin DOMAIN config.default_values
  /\ \A n \in 1..Len(TemplatesFrom(config, 1, 1)) :
       kNext \notin DOMAIN TemplatesFrom(config, 1, 1)[n]
  /\ \A i, j \in 1..Len(operators) : i # j => operators[i][kId] # operators[j][kId]

\* C35: with operators compiled without any next of their own and with
\* pairwise distinct ids, the k-th step of the driver started at the first
\* operator is a step of operator number (k-1) mod N of the compiled list;
\* so N consecutive steps are one step of each operator.
C35_StepsGoRoundTheRing ==
  RingOfDistinctIds =>
    /\ \A k \in 1..Len(history) :
         history[k].operator_id = operators[((k - 1) % Len(operators)) + 1][kId]
    /\ pc \in {"ready", "sampling"} =>
         current_operator_id = operators[(Len(history) % Len(operators)) + 1][kId]
    /\ \A k \in 1..(Len(history) - Len(operators) + 1) :
         {history[k + d].operator_id : d \in 0..(Len(operators) - 1)}
           = {operators[n][kId] : n \in 1..Len(operators)}

\* three operators, one of them sampled: the fourth step is the first
\* operator's again
C35_Witness ==
  /\ RingOfDistinctIds
  /\ Len(operators) = 3
  /\ Len(history) = 4
  /\ history[4].operator_id = operators[1][kId]
  /\ history[3].operator_id = operators[3][kId]
  /\ HasSuffix(history[3].output[1])

(***************************************************************************)
(* Properties of earlier operators in the state, checked under Spec         *)
(***************************************************************************)
\* the operator of step i and the keys of its properties
OperatorOf(i) == lookup(operators, history[i].operator_id)
PropertiesOf(i) == (DOMAIN OperatorOf(i)) \ {kId, kFormula, kNext}

\* the steps up to j whose operator has the property k
Carriers(j, k) == {i \in 1..j : k \in PropertiesOf(i)}
LastCarrier(j, k) == CHOOSE i \in Carriers(j, k) : \A m \in Carriers(j, k) : m <= i

\* a formula of the steps i..j assigns the name k
AssignedBetween(i, j, k) ==
  \E m \in i..j : Strip(SplitHead(OperatorOf(m)[kFormula].v)) = k

\* the snapshot of step j has, under k, the value of the operator of step i,
\* and a query for that value on k selects the step
CarriedTo(i, j, k) ==
  /\ k \in DOMAIN history[j].state
  /\ SameValue(history[j].state[k], OperatorOf(i)[k])
  /\ matching_output(<<history[j]>>, (k :> OperatorOf(i)[k]), 1) = history[j].output

AllPropertyKeys == UNION {(DOMAIN operators[n]) \ {kId, kFormula, kNext} : n \in 1..Len(operators)}

\* C36 (as claimed): the snapshot of a step whose operator has no property
\* k holds under k the value of the most recent earlier operator that had
\* it, and a query on k matches the step accordingly.
C36_PropertyStaysUntilOverwritten ==
  \A j \in 1..Len(history) : \A k \in AllPropertyKeys :
    (k \notin PropertiesOf(j) /\ Carriers(j, k) # {}) =>
      CarriedTo(LastCarrier(j, k), j, k)

\* C36 (amended): the snapshot of a step whose operator has no property k
\* holds under k the value of the most recent earlier operator that had it,
\* and a query on k matches the step accordingly, unless the formula of a
\* step from that operator's on assigns k.
C36_PropertyStaysUntilWritten ==
  \A j \in 1..Len(history) : \A k \in AllPropertyKeys :
    (k \notin PropertiesOf(j) /\ Carriers(j, k) # {}
       /\ ~AssignedBetween(LastCarrier(j, k), j, k)) =>
      CarriedTo(LastCarrier(j, k), j, k)

\* the third step, of an operator without a prompt and without the mark
\* for_summary: its snapshot has the prompt of the second step's operator
\* and the mark of the first's
C36_Witness ==
  /\ Len(history) = 3
  /\ kPrompt \notin PropertiesOf(3) /\ kForSummary \notin PropertiesOf(3)
  /\ Carriers(3, kPrompt) # {} /\ Carriers(3, kForSummary) # {}
  /\ LastCarrier(3, kPrompt) = 2 /\ LastCarrier(3, kForSummary) = 1
  /\ history[3].state[kPrompt] = StrV(BeBrief)
  /\ history[3].state[kForSummary] = Yes
  /\ history[1].state[kPrompt] = StrV(<<>>)

(***************************************************************************)
(* The names of the function registry in formulas, checked under Spec       *)
(***************************************************************************)
\* what the name f evaluates to against the state
ResolvedInState(f) ==
  visit_Name(Name(f), [names |-> heap[1], state |-> heap[1], aliased |-> TRUE])

\* step i ran the formula that calls f on [True]
CallsOnTrue(i, f) ==
  OperatorOf(i)[kFormula] =
    StrV(<<"world", "_", "flag", " ", "=", " ", f[1], "(", "[", "True", "]", ")">>)

\* C37: against the state of generate_operators as the driver advances it,
\* every name of the function registry evaluates to the registry's
\* function, and a formula that calls it gets the function's result.
C37_RegistryNamesResolve ==
  /\ heap # <<>> =>
       \A f \in Functions :
         ResolvedInState(f).ok /\ ResolvedInState(f).val = FuncV(f)
  /\ \A i \in 1..Len(history) : \A f \in {<<"all">>, <<"any">>} :
       CallsOnTrue(i, f) => history[i].state[<<"world", "_", "flag">>] = BoolV(TRUE)

\* the part of C37 that holds: a name of the registry that is no key of the
\* state evaluates to the registry's function
RegistryNamesOutsideStateResolve ==
  /\ heap # <<>> =>
       \A f \in Functions \ DOMAIN heap[1] :
         ResolvedInState(f).ok /\ ResolvedInState(f).val = FuncV(f)
  /\ \A i \in 1..Len(history) :
       CallsOnTrue(i, <<"any">>) => history[i].state[<<"world", "_", "flag">>] = BoolV(TRUE)

(***************************************************************************)
(* Properties of the editor, checked under SpecEditor                       *)
(***************************************************************************)
\* the places of the operators: component and position
OperatorPlaces(ed) ==
  UNION {{<<c, i>> : i \in 1..Len(ed.systems_definitions[c])} :
           c \in DOMAIN ed.systems_definitions}

IdAt(ed, p) == ed.systems_definitions[p[1]][p[2]][kId].v

\* the ids of all operators of the editor are pairwise distinct
DistinctIds(ed) ==
  \A p, q \in OperatorPlaces(ed) : p # q => IdAt(ed, p) # IdAt(ed, q)

OperatorCalls == {"add_operator", "rename_operator", "remove_operator", "move_operator"}

\* C38: a call of add_operator, rename_operator, remove_operator or
\* move_operator on an editor whose operator ids are pairwise distinct
\* leaves them pairwise distinct.
C38_IdsStayDistinct ==
  [][(DistinctIds(editor) /\ editor'.call \in OperatorCalls) => DistinctIds(editor')]_vars

\* rename_operator has given the second operator of a component the name of
\* the first, and its id the suffix _1
C38_Witness ==
  /\ editor.call = "rename_operator" /\ editor.raised = ""
  /\ DistinctIds(editor)
  /\ \E c \in DOMAIN editor.systems_definitions :
       /\ Len(editor.systems_definitions[c]) = 2
       /\ IdAt(editor, <<c, 2>>) = IdAt(editor, <<c, 1>>) \o <<"_", "1">>

\* current_component is None or a component of current_entity
ComponentSelectionValid(ed) ==
  ed.current_component = NoneV
    \/ /\ Truthy(ed.current_entity)
       /\ has_entity(ed, ed.current_entity.v)
       /\ contains(components_of(ed, ed.current_entity.v), ed.current_component.v)

\* current_operator_index is None or an index into the operators of
\* current_component
OperatorSelectionValid(ed) ==
  ed.current_operator_index = NoneV
    \/ /\ Truthy(ed.current_component)
       /\ ed.current_component.v \in DOMAIN ed.systems_definitions
       /\ ed.current_operator_index.v >= 0
       /\ ed.current_operator_index.v <
            Len(ed.systems_definitions[ed.current_component.v])

\* C39: after every handler call current_component is None or a component
\* of current_entity, current_operator_index is None or a valid index into
\* systems_definitions[current_component], and no call has ended with an
\* IndexError.
C39_SelectionsValid ==
  /\ ComponentSelectionValid(editor)
  /\ OperatorSelectionValid(editor)
  /\ editor.raised # "IndexError"

\* the data of the component c is in both editors, and the same
SameComponentData(before, after, c) ==
  /\ c \in DOMAIN after.variables /\ c \in DOMAIN after.systems_definitions
  /\ DOMAIN after.variables[c] = DOMAIN before.variables[c]
  /\ \A k \in DOMAIN before.variables[c] : after.variables[c][k] = before.variables[c][k]
  /\ Len(after.systems_definitions[c]) = Len(before.systems_definitions[c])
  /\ \A i \in 1..Len(before.systems_definitions[c]) :
       after.systems_definitions[c][i] = before.systems_definitions[c][i]

\* C40: a call of add_component or upload_component leaves the variables
\* and the operators of every component that existed before as they were.
C40_AddingKeepsComponents ==
  [][editor'.call \in {"add_component", "upload_component"} =>
       \A c \in DOMAIN editor.variables : SameComponentData(editor, editor', c)]_vars

\* the part of C40 that holds: within the entity it is added to, the new
\* component gets a name that no component of that entity has, and the
\* components of the entity stay in its list
NewNameWithinEntity ==
  [][(editor'.call \in {"add_component", "upload_component"} /\ editor'.raised = ""
        /\ Truthy(editor.current_entity)) =>
       LET old == components_of(editor, editor.current_entity.v)
           new == components_of(editor', editor.current_entity.v)
       IN /\ Len(new) = Len(old) + 1
          /\ SubSeq(new, 1, Len(old)) = old
          /\ ~contains(old, new[Len(new)])]_vars

(***************************************************************************)
(* Properties of Evaluator.eval, checked under SpecEval                     *)
(***************************************************************************)
\* C21: an evaluation leaves the name table it was given as it was: no key
\* added, removed or rebound, the loop variable of a comprehension included.
C21_EvalLeavesNames ==
  pc = "evaluated" =>
    /\ DOMAIN state = DOMAIN entry.state
    /\ \A k \in DOMAIN state : SameAs(state[k], entry.state[k], heap, entry.heap, 2)

\* the expression being evaluated calls an attribute of a value
\* (receiver.method(...)), and the receiver is no registered module
AttributeCall ==
  LET tree == Parse(formula_data[kFormula].v)
      receiver(r) == r.ok /\ r.val.t # "module"
  IN /\ tree.node = "Call"
     /\ tree.func.node = "Attribute"
     /\ receiver(visit(tree.func.value,
                       [names |-> entry.state, state |-> entry.state, aliased |-> TRUE]))

\* C22: a call of an attribute of an evaluated value that was not registered
\* is refused with an error, not performed.
C22_AttributeCallsRefused ==
  (pc = "evaluated" /\ AttributeCall) => locals.error_occurred

(***************************************************************************)
(* Initial values of generate_operators, checked under SpecGen              *)
(***************************************************************************)
\* an initial value of a variable some entity has matches identifier(...) and
\* does not evaluate
UnevaluableInitializer ==
  \E n \in 1..Len(config.entities) :
    \E j \in 1..Len(config.entities[n].variables) :
      LET attrs == config.variables[config.entities[n].variables[j]] IN
      \E c \in DOMAIN attrs :
        /\ is_callable_expression(attrs[c])
        /\ ~eval(attrs[c].v, (kState :> DictV(0))).ok

\* C25: when an initial value matches identifier(...) and cannot be
\* evaluated, generate_operators returns no operators and state: it fails.
C25_UnevaluableInitializerFails ==
  pc = "compiled" => ~UnevaluableInitializer

====
